---------------------------- MODULE Spec2Model ----------------------------
(***************************************************************************)
(* A model of the Gemini exfil detector's correlation engine               *)
(* (src/src/detector.py, intent_classifier.py, recon_tracker.py,           *)
(* file_context.py).                                                        *)
(*                                                                         *)
(* Conventions                                                             *)
(*  - A Python str that the code searches, splits, strips or lower-cases   *)
(*    is a sequence of one-character strings, so that `in`, split, strip   *)
(*    and lower are computed and not assumed.  A str that the code only    *)
(*    compares for equality or set membership is a TLA+ string.            *)
(*  - An absent optional parameter is NoStr (character strings) or None    *)
(*    (identifiers).  The ingest expression `value or intValue or          *)
(*    boolValue` turns "" into None, and every use in the code is a        *)
(*    truthiness test, so "" and None need not be told apart.              *)
(*  - A timestamp is a number of seconds since Monday 2024-01-08T00:00Z.   *)
(*  - A recon score and a delta in minutes are numbers of hundredths       *)
(*    (both are round(x, 2) in the code); a time difference is a number    *)
(*    of seconds.                                                          *)
(***************************************************************************)
EXTENDS Integers, Sequences, FiniteSets, TLC

VARIABLES
    pc,                      \* position of the pipeline driver (main)
    config,                  \* the configuration object
    recon_events,            \* fetch_recon_events' list
    drive_activities,        \* the Drive activities the ActivitySource has returned
    exfil_events,            \* fetch_exfil_events' list
    memory_store,            \* ReconTracker.memory_store
    user_baselines,          \* IntentClassifier.user_baselines
    domain_reputation_cache, \* IntentClassifier.domain_reputation_cache
    file_cache,              \* FileContextEnricher.file_cache
    findings,                \* correlate_events' result
    window_minutes,          \* correlate_events' argument
    call,                    \* the last direct call of a component and its result
    redis_client,            \* ReconTracker.redis_client is set (Redis answered the ping)
    redis_store,             \* the Redis server: key -> the activities of its JSON list
    record_calls,            \* the record_recon calls in progress, by caller
    recorded,                \* the record_recon calls that have returned, in order
    metadata_requests        \* the doc_ids of the files().get requests executed, in order

vars == <<pc, config, recon_events, drive_activities, exfil_events, memory_store,
          user_baselines, domain_reputation_cache, file_cache, findings,
          window_minutes, call, redis_client, redis_store, record_calls, recorded,
          metadata_requests>>

tracker_vars == <<redis_client, redis_store, record_calls, recorded>>

(***************************************************************************)
(* Python str operations on sequences of characters.                       *)
(***************************************************************************)
NoStr == <<>>
None == "None"

\* `p in s` for two str: p occurs as a contiguous substring of s.
Contains(p, s) ==
    \E i \in 0..(Len(s) - Len(p)) : SubSeq(s, i + 1, i + Len(p)) = p

UpperToLower ==
    [c \in {"A", "B", "C", "D", "E", "F", "G", "H", "I", "J", "K", "L", "M",
            "N", "O", "P", "Q", "R", "S", "T", "U", "V", "W", "X", "Y", "Z"} |->
        CASE c = "A" -> "a" [] c = "B" -> "b" [] c = "C" -> "c" [] c = "D" -> "d"
          [] c = "E" -> "e" [] c = "F" -> "f" [] c = "G" -> "g" [] c = "H" -> "h"
          [] c = "I" -> "i" [] c = "J" -> "j" [] c = "K" -> "k" [] c = "L" -> "l"
          [] c = "M" -> "m" [] c = "N" -> "n" [] c = "O" -> "o" [] c = "P" -> "p"
          [] c = "Q" -> "q" [] c = "R" -> "r" [] c = "S" -> "s" [] c = "T" -> "t"
          [] c = "U" -> "u" [] c = "V" -> "v" [] c = "W" -> "w" [] c = "X" -> "x"
          [] c = "Y" -> "y" [] c = "Z" -> "z"]

\* str.lower()
Lower(s) ==
    [i \in 1..Len(s) |-> IF s[i] \in DOMAIN UpperToLower THEN UpperToLower[s[i]] ELSE s[i]]

Whitespace == {" ", "\t", "\n", "\r"}

RECURSIVE LStrip(_)
LStrip(s) ==
    IF s # <<>> /\ Head(s) \in Whitespace THEN LStrip(Tail(s)) ELSE s

RECURSIVE RStrip(_)
RStrip(s) ==
    IF s # <<>> /\ s[Len(s)] \in Whitespace THEN RStrip(SubSeq(s, 1, Len(s) - 1)) ELSE s

\* str.strip()
Strip(s) == RStrip(LStrip(s))

\* s.split(sep)[-1] for a one-character sep: what follows the last sep, or
\* all of s when sep does not occur.
SplitLast(s, sep) ==
    LET at == {i \in 1..Len(s) : s[i] = sep}
    IN  IF at = {} THEN s
        ELSE LET last == CHOOSE i \in at : \A j \in at : j <= i
             IN  SubSeq(s, last + 1, Len(s))

(***************************************************************************)
(* detector.py: module constants.                                          *)
(***************************************************************************)
RECON_ACTIONS ==
    {"ask_about_this_file", "summarize_file", "summarize_long",
     "summarize_proactive_short", "ask_about_context", "summarize", "catch_me_up",
     "ask_about_unspecified_file", "summarize_unspecified_file",
     "analyze_documents", "report_unspecified_files"}

RECON_APPS == {"docs", "drive", "sheets", "slides"}

s_download == <<"d", "o", "w", "n", "l", "o", "a", "d">>
s_export == <<"e", "x", "p", "o", "r", "t">>
s_copy == <<"c", "o", "p", "y">>
s_add_to_folder == <<"a", "d", "d", "_", "t", "o", "_", "f", "o", "l", "d", "e", "r">>
s_change_acl == <<"c", "h", "a", "n", "g", "e", "_", "a", "c", "l">>
s_change_visibility ==
    <<"c", "h", "a", "n", "g", "e", "_", "v", "i", "s", "i", "b", "i", "l", "i", "t", "y">>
s_deny_access_request ==
    <<"d", "e", "n", "y", "_", "a", "c", "c", "e", "s", "s", "_", "r", "e", "q", "u", "e", "s", "t">>
s_request_access ==
    <<"r", "e", "q", "u", "e", "s", "t", "_", "a", "c", "c", "e", "s", "s">>
s_create_shortcut ==
    <<"c", "r", "e", "a", "t", "e", "_", "s", "h", "o", "r", "t", "c", "u", "t">>
s_move == <<"m", "o", "v", "e">>
s_publish_to_web ==
    <<"p", "u", "b", "l", "i", "s", "h", "_", "t", "o", "_", "w", "e", "b">>
s_transfer_ownership ==
    <<"t", "r", "a", "n", "s", "f", "e", "r", "_", "o", "w", "n", "e", "r", "s", "h", "i", "p">>
s_untrash == <<"u", "n", "t", "r", "a", "s", "h">>
s_visibility == <<"v", "i", "s", "i", "b", "i", "l", "i", "t", "y">>

EXFIL_EVENT_PATTERNS ==
    {s_download, s_export, s_copy, s_add_to_folder, s_change_acl, s_change_visibility,
     s_deny_access_request, s_request_access, s_create_shortcut, s_move,
     s_publish_to_web, s_transfer_ownership, s_untrash}

HIGH_RISK_VISIBILITY == {"people_with_link", "public_on_the_web", "shared_externally"}

(***************************************************************************)
(* Event names the ActivitySource is taken to return.                      *)
(***************************************************************************)
n_change_user_access ==
    <<"c", "h", "a", "n", "g", "e", "_", "u", "s", "e", "r", "_", "a", "c", "c", "e", "s", "s">>
n_view == <<"v", "i", "e", "w">>
n_download_create_shortcut ==
    <<"d", "o", "w", "n", "l", "o", "a", "d", "_", "c", "r", "e", "a", "t", "e", "_",
      "s", "h", "o", "r", "t", "c", "u", "t">>
n_Change_Visibility ==
    <<"C", "h", "a", "n", "g", "e", "_", "V", "i", "s", "i", "b", "i", "l", "i", "t", "y">>

(***************************************************************************)
(* detector.py: GeminiExfilDetector._calculate_severity.                   *)
(* delta_seconds is delta_minutes * 60: `delta_minutes <= 10` is           *)
(* delta_seconds <= 600.  recon_score is in hundredths.  The reason string *)
(* "; ".join(reasons) is kept as the sequence of its phrases.              *)
(***************************************************************************)
\* Promote with every promotion going to the top
Promote_to_high(severity) == "high"

Promote(severity) ==
    IF severity = "medium" THEN "high"
    ELSE IF severity = "low" THEN "medium"
    ELSE severity

\* is_external_share without the visibility test
is_external_share_any_visibility(exfil) ==
    \/ Contains(s_change_acl, exfil.event_name)
    \/ Contains(s_change_visibility, exfil.event_name)

is_external_share(exfil) ==
    /\ \/ Contains(s_change_acl, exfil.event_name)
       \/ Contains(s_change_visibility, exfil.event_name)
    /\ exfil.visibility \in HIGH_RISK_VISIBILITY

is_export_download(exfil) ==
    \/ Contains(s_download, exfil.event_name)
    \/ Contains(s_export, exfil.event_name)

is_ownership_transfer(exfil) == Contains(s_transfer_ownership, exfil.event_name)

is_shortcut(exfil) == Contains(s_create_shortcut, exfil.event_name)

is_publish(exfil) == Contains(s_publish_to_web, exfil.event_name)

BaseSeverity(exfil, delta_seconds) ==
        IF exfil.is_revert
        THEN [severity |-> "high", code |-> "external_toggle_revert",
              reason |-> "External toggle with rapid revert (evasion pattern)"]
        ELSE IF delta_seconds <= 10 * 60
        THEN IF is_external_share(exfil) \/ is_ownership_transfer(exfil) \/ is_publish(exfil)
             THEN [severity |-> "high", code |-> "external_share_immediate",
                   reason |-> "External share/transfer within 10min of recon"]
             ELSE IF is_export_download(exfil)
             THEN [severity |-> "high", code |-> "export_immediate",
                   reason |-> "Export/download within 10min of recon"]
             ELSE IF is_shortcut(exfil)
             THEN [severity |-> "medium", code |-> "shortcut_immediate",
                   reason |-> "Shortcut creation within 10min of recon"]
             ELSE [severity |-> "medium", code |-> "activity_immediate",
                   reason |-> "Activity within 10min"]
        ELSE IF delta_seconds <= 30 * 60
        THEN IF is_external_share(exfil) \/ is_export_download(exfil) \/ is_ownership_transfer(exfil)
             THEN [severity |-> "medium", code |-> "suspicious_30min",
                   reason |-> "Suspicious activity within 30min"]
             ELSE [severity |-> "low", code |-> "activity_correlated",
                   reason |-> "Activity correlation detected"]
        ELSE [severity |-> "low", code |-> "activity_correlated",
              reason |-> "Activity correlation detected"]

ReconAmplification(base, recon_score) ==
    IF recon_score >= 1000
    THEN [severity |-> Promote(base.severity),
          reason |-> <<base.reason, "High cumulative recon score">>,
          reason_codes |-> <<base.code, "high_recon_score">>]
    ELSE IF recon_score >= 500
    THEN [severity |-> base.severity,
          reason |-> <<base.reason, "Elevated recon score">>,
          reason_codes |-> <<base.code, "elevated_recon_score">>]
    ELSE [severity |-> base.severity,
          reason |-> <<base.reason>>,
          reason_codes |-> <<base.code>>]

_calculate_severity(exfil, delta_seconds, recon_score) ==
    ReconAmplification(BaseSeverity(exfil, delta_seconds), recon_score)

(***************************************************************************)
(* IEEE-754 binary64 arithmetic for classify_intent's confidence.          *)
(* A float is [h, d] and stands for the real (h * 2^54 + d) / 25 in units  *)
(* of 2^-56, that is h/100 + d * 2^-56 / 25: h is the value in hundredths  *)
(* and d the representation error.  Every float literal of classify_intent *)
(* is a multiple of 2^-56, so a sum is exact before it is rounded to the   *)
(* 53-bit significand of its binade (round half to even), as `+=` does.    *)
(***************************************************************************)
F_0_5 == [h |-> 50, d |-> 0]
F_0_4 == [h |-> 40, d |-> 40]
F_0_2 == [h |-> 20, d |-> 20]
F_0_3 == [h |-> 30, d |-> -20]
F_0_1 == [h |-> 10, d |-> 10]
F_0_15 == [h |-> 15, d |-> -10]
F_0_7 == [h |-> 70, d |-> -80]

\* 2^54 modulo m, for the moduli 25 * 2 * ulp that rounding needs
Pow2_54Mod(m) ==
    CASE m = 50 -> 34 [] m = 100 -> 84 [] m = 200 -> 184 [] m = 400 -> 384
      [] m = 800 -> 384 [] m = 1600 -> 384

\* h/100 + error >= t/100, for a threshold t/100 that is a power of two
FloatAtLeastPow2(h, d, t) == h > t \/ (h = t /\ d >= 0)

\* The unit in the last place, in units of 2^-56, of the binade of a
\* non-negative value; 0 when the value is below 2^-4 and so exact.
FloatUlp(h, d) ==
    IF FloatAtLeastPow2(h, d, 200) THEN 32
    ELSE IF FloatAtLeastPow2(h, d, 100) THEN 16
    ELSE IF FloatAtLeastPow2(h, d, 50) THEN 8
    ELSE IF FloatAtLeastPow2(h, d, 25) THEN 4
    ELSE IF h >= 13 THEN 2
    ELSE IF h >= 7 THEN 1
    ELSE 0

\* Round a non-negative exact value to the nearest float, ties to even:
\* R is its unit in the last place and s2 the value modulo 2 * R.
FloatRoundRem(h, d, R, s2) ==
    IF 2 * (s2 % R) < R \/ (2 * (s2 % R) = R /\ (s2 \div R) % 2 = 0)
    THEN [h |-> h, d |-> d - 25 * (s2 % R)]
    ELSE [h |-> h, d |-> d + 25 * (R - (s2 % R))]

FloatRoundTo(h, d, R) ==
    IF R = 0 THEN [h |-> h, d |-> d]
    ELSE FloatRoundRem(h, d, R,
             ((h * Pow2_54Mod(25 * 2 * R) + d) % (25 * 2 * R)) \div 25)

FloatRoundAbs(h, d) == FloatRoundTo(h, d, FloatUlp(h, d))

FloatNeg(a) == [h |-> -a.h, d |-> -a.d]

FloatRound(h, d) ==
    IF h < 0 \/ (h = 0 /\ d < 0)
    THEN FloatNeg(FloatRoundAbs(-h, -d))
    ELSE FloatRoundAbs(h, d)

FloatAdd(a, b) == FloatRound(a.h + b.h, a.d + b.d)
FloatSub(a, b) == FloatRound(a.h - b.h, a.d - b.d)
\* a >= b
FloatGE(a, b) == a.h > b.h \/ (a.h = b.h /\ a.d >= b.d)
\* round(a, 2), in hundredths: the error is far below half a hundredth
FloatRound2(a) == a.h

(***************************************************************************)
(* intent_classifier.py: IntentClassifier.                                 *)
(* A baseline's first_seen and last_updated hold utcnow() and are read by  *)
(* nothing; they are left out.                                             *)
(***************************************************************************)
s_at == <<"@">>

_extract_destination_domain(new_value, visibility) ==
    IF new_value = NoStr THEN NoStr
    ELSE IF Contains(s_at, new_value) THEN Strip(SplitLast(new_value, "@"))
    ELSE NoStr

trusted_domains(cfg) == cfg.allowed_external_domains
partner_domains(cfg) == cfg.partner_domains

_get_domain_reputation(cfg, cache, domain) ==
    LET domain_lower == Lower(domain)
    IN  IF domain_lower \in DOMAIN cache THEN cache[domain_lower]
        ELSE IF domain_lower \in trusted_domains(cfg) THEN "trusted"
        ELSE IF domain_lower \in partner_domains(cfg) THEN "partner"
        ELSE "unknown"

\* a cache that stores "unknown" for every domain it has not seen
ReputationCacheAfter_unknown(cfg, cache, domain) ==
    IF Lower(domain) \in DOMAIN cache THEN cache
    ELSE cache @@ (Lower(domain) :> "unknown")

\* domain_reputation_cache after _get_domain_reputation(domain)
ReputationCacheAfter(cfg, cache, domain) ==
    LET domain_lower == Lower(domain)
    IN  IF domain_lower \in DOMAIN cache THEN cache
        ELSE cache @@ (domain_lower :> _get_domain_reputation(cfg, cache, domain))

_normalize_email(email) == Strip(Lower(email))

NewBaseline ==
    [typical_share_domains |-> {}, typical_share_count |-> 0,
     typical_download_count |-> 0]

\* the baseline _get_or_create_baseline(actor) returns
_get_or_create_baseline(baselines, actor) ==
    IF actor \in DOMAIN baselines THEN baselines[actor] ELSE NewBaseline

\* a lookup that also counts one share for the actor
BaselinesAfterGet_counted(baselines, actor) ==
    IF actor \in DOMAIN baselines
    THEN [baselines EXCEPT ![actor].typical_share_count = @ + 1]
    ELSE baselines @@ (actor :> [NewBaseline EXCEPT !.typical_share_count = 1])

\* user_baselines after _get_or_create_baseline(actor)
BaselinesAfterGet(baselines, actor) ==
    IF actor \in DOMAIN baselines THEN baselines ELSE baselines @@ (actor :> NewBaseline)

Hour(timestamp) == (timestamp \div 3600) % 24
\* Monday is 0
Weekday(timestamp) == (timestamp \div 86400) % 7

_is_off_hours(timestamp) ==
    IF Weekday(timestamp) >= 5 THEN TRUE
    ELSE IF Hour(timestamp) < 6 \/ Hour(timestamp) > 20 THEN TRUE
    ELSE FALSE

IsDownloadOrExport(exfil_event) == exfil_event \in {s_download, s_export}

\* user_baselines after update_baseline(actor, exfil_event, destination_domain)
update_baseline(baselines, actor, exfil_event, destination_domain) ==
    LET got == BaselinesAfterGet(baselines, actor)
        b0 == got[actor]
        b1 == IF destination_domain # NoStr
              THEN [b0 EXCEPT !.typical_share_domains = @ \cup {destination_domain},
                              !.typical_share_count = @ + 1]
              ELSE b0
        b2 == IF IsDownloadOrExport(exfil_event)
              THEN [b1 EXCEPT !.typical_download_count = @ + 1]
              ELSE b1
    IN  [got EXCEPT ![actor] = b2]

\* a correlation that skips the baseline pass
build_baselines_from_history_skipped(baselines, drive_events) == baselines

\* user_baselines after build_baselines_from_history(drive_events)
RECURSIVE build_baselines_from_history(_, _)
build_baselines_from_history(baselines, drive_events) ==
    IF drive_events = <<>> THEN baselines
    ELSE LET event == Head(drive_events)
             destination_domain ==
                 _extract_destination_domain(event.new_value, event.visibility)
         IN  build_baselines_from_history(
                 update_baseline(baselines, event.actor, event.event_name,
                                 destination_domain),
                 Tail(drive_events))

\* One `confidence +=/-= x; reasons.append(r)` step of classify_intent.
Adjust(st, up, x, reason) ==
    [st EXCEPT !.confidence = IF up THEN FloatAdd(@, x) ELSE FloatSub(@, x),
               !.reasons = Append(@, reason)]

\* Lines 68-80: the destination's reputation ("None" when there is none).
DestinationStep(st, domain_reputation) ==
    IF domain_reputation = "trusted"
    THEN [Adjust(st, FALSE, F_0_4, "Destination domain is trusted")
             EXCEPT !.should_suppress = TRUE]
    ELSE IF domain_reputation = "partner"
    THEN Adjust(st, FALSE, F_0_2, "Destination domain is a known partner")
    ELSE IF domain_reputation = "unknown"
    THEN Adjust(st, TRUE, F_0_3, "Destination domain is unknown/untrusted")
    ELSE st

\* Lines 82-88: whose file it is.
OwnershipStep(st, doc_owner, actor) ==
    IF doc_owner # NoStr /\ actor # NoStr
    THEN IF _normalize_email(doc_owner) = _normalize_email(actor)
         THEN Adjust(st, FALSE, F_0_1, "User is sharing their own file")
         ELSE Adjust(st, TRUE, F_0_3, "User is sharing someone else's file")
    ELSE st

\* Lines 90-97: the destination against the actor's baseline.
BaselineStep(st, destination_domain, baseline) ==
    IF destination_domain # NoStr
       /\ destination_domain \in baseline.typical_share_domains
    THEN Adjust(st, FALSE, F_0_2, "User has historically shared with domain")
    ELSE IF destination_domain # NoStr
    THEN Adjust(st, TRUE, F_0_2, "First-time share with domain")
    ELSE st

\* Lines 99-101.
OffHoursStep(st, timestamp) ==
    IF _is_off_hours(timestamp)
    THEN Adjust(st, TRUE, F_0_2, "Activity occurred during off-hours")
    ELSE st

\* Lines 103-106.
DownloadStep(st, exfil_event, baseline) ==
    IF IsDownloadOrExport(exfil_event) /\ baseline.typical_download_count > 10
    THEN Adjust(st, FALSE, F_0_15, "User frequently downloads files")
    ELSE st

\* Lines 108-113.
IntentLabel(confidence) ==
    IF FloatGE(confidence, F_0_7) THEN "malicious"
    ELSE IF FloatGE(confidence, F_0_4) THEN "suspicious"
    ELSE "legitimate"

\* Lines 115-121: the dictionary returned.
IntentAnalysis(st, destination_domain) ==
    [intent |-> IntentLabel(st.confidence),
     confidence |-> FloatRound2(st.confidence),
     reasons |-> st.reasons,
     should_suppress |-> st.should_suppress,
     destination_domain |-> destination_domain]

ClassifyWith(cfg, cache, a, destination_domain, baseline) ==
    IntentAnalysis(
        DownloadStep(
            OffHoursStep(
                BaselineStep(
                    OwnershipStep(
                        DestinationStep(
                            [confidence |-> F_0_5, reasons |-> <<>>,
                             should_suppress |-> FALSE],
                            IF destination_domain # NoStr
                            THEN _get_domain_reputation(cfg, cache, destination_domain)
                            ELSE None),
                        a.doc_owner, a.actor),
                    destination_domain, baseline),
                a.timestamp),
            a.exfil_event, baseline),
        destination_domain)

\* The dictionary classify_intent returns; a is the record of its arguments.
classify_intent(cfg, cache, baselines, a) ==
    ClassifyWith(cfg, cache, a,
                 _extract_destination_domain(a.new_value, a.visibility),
                 _get_or_create_baseline(baselines, a.actor))

\* domain_reputation_cache after classify_intent
ClassifyCacheAfter(cfg, cache, a) ==
    LET destination_domain == _extract_destination_domain(a.new_value, a.visibility)
    IN  IF destination_domain # NoStr
        THEN ReputationCacheAfter(cfg, cache, destination_domain)
        ELSE cache

(***************************************************************************)
(* recon_tracker.py: ReconTracker with no redis_url (redis_client is None: *)
(* every read and write goes to memory_store).  memory_store maps an actor *)
(* (the key "recon:<actor>") to the list of its activity dictionaries.     *)
(* A base score is in tenths, a decay factor in millionths.                *)
(***************************************************************************)
\* datetime.isoformat(), and datetime.fromisoformat() of it
IsoFormat(timestamp) == <<"iso", timestamp>>
FromIsoFormat(text) == text[2]

_action_to_score(action) ==
    CASE action = "ask_about_this_file" -> 30
      [] action = "summarize_file" -> 30
      [] action = "analyze_documents" -> 40
      [] action = "catch_me_up" -> 50
      [] action = "summarize_long" -> 20
      [] action = "ask_about_context" -> 20
      [] action = "summarize" -> 15
      [] OTHER -> 10

\* 0.5 ** (seconds / 3600 / DECAY_HALF_LIFE_HOURS) in millionths, for the
\* elapsed times of the model's timestamps
DecayMillionths(seconds) ==
    CASE seconds = 0 -> 1000000
      [] seconds = 240 -> 999038
      [] seconds = 300 -> 998797
      [] seconds = 600 -> 997596
      [] seconds = 1800 -> 992806
      [] seconds = 1860 -> 992567
      [] seconds = 2100 -> 991612
      [] seconds = 86400 -> 707107
      [] seconds = 172800 -> 500000
      [] seconds = 345600 -> 250000
      [] seconds = -60 -> 1000241
      [] seconds = -1560 -> 1006277
      [] seconds = -1860 -> 1007489
      [] seconds = -86400 -> 1414214
      [] seconds = -172800 -> 2000000

_calculate_decay_factor(activity_time, current_time) ==
    DecayMillionths(current_time - activity_time)

_store_in_memory(store, key, activity_data) ==
    IF key \in DOMAIN store
    THEN [store EXCEPT ![key] = Append(@, activity_data)]
    ELSE store @@ (key :> <<activity_data>>)

\* memory_store after record_recon(actor, timestamp, app, action)
record_recon(store, actor, timestamp, app, action) ==
    _store_in_memory(store, actor,
        [actor |-> actor, timestamp |-> IsoFormat(timestamp), app |-> app,
         action |-> action, score |-> _action_to_score(action), doc_id |-> None])

RECURSIVE TotalScore(_, _)
TotalScore(activities, current_time) ==
    IF activities = <<>> THEN 0
    ELSE Head(activities).score
           * _calculate_decay_factor(FromIsoFormat(Head(activities).timestamp),
                                     current_time)
         + TotalScore(Tail(activities), current_time)

\* round(total_score, 2) in hundredths; total_score is in ten-millionths
get_recon_score(store, actor, current_time) ==
    LET activities == IF actor \in DOMAIN store THEN store[actor] ELSE <<>>
    IN  (TotalScore(activities, current_time) + 50000) \div 100000

\* the callers of record_recon that may run at the same time
Procs == {1, 2}

Idle == [pc |-> "idle"]

\* ReconTracker() with no redis_url, or whose Redis did not answer: the
\* in-process map only
MemoryTracker ==
    /\ redis_client = FALSE
    /\ redis_store = <<>>
    /\ record_calls = [p \in Procs |-> Idle]
    /\ recorded = <<>>

\* asdict(activity) with the timestamp in ISO format
ActivityData(actor, timestamp, app, action) ==
    [actor |-> actor, timestamp |-> IsoFormat(timestamp), app |-> app,
     action |-> action, score |-> _action_to_score(action), doc_id |-> None]

\* redis_client.get(key) and json.loads; every exception gives []
_get_redis_activities(store, key, get_ok) ==
    IF get_ok /\ key \in DOMAIN store THEN store[key] ELSE <<>>

\* redis_client.setex(key, ttl_seconds, json.dumps(activities))
Setex(store, key, activities) ==
    IF key \in DOMAIN store THEN [store EXCEPT ![key] = activities]
    ELSE store @@ (key :> activities)

\* the activities get_recon_score sums
ScoredActivities(client, store, memory, actor, get_ok) ==
    IF client THEN _get_redis_activities(store, actor, get_ok)
    ELSE IF actor \in DOMAIN memory THEN memory[actor] ELSE <<>>

RoundedScore(activities, current_time) ==
    (TotalScore(activities, current_time) + 50000) \div 100000

(***************************************************************************)
(* file_context.py: FileContextEnricher.  The FileMetadataSource is a map  *)
(* `drive` from doc_id to <<the file resource>>, or to <<>> for a request   *)
(* that raises (404 or any other error).  shared_externally and            *)
(* last_accessed are left out: the correlator reads neither.               *)
(***************************************************************************)
s_exec == <<"e", "x", "e", "c">>
s_ceo == <<"c", "e", "o">>
s_cfo == <<"c", "f", "o">>
s_finance == <<"f", "i", "n", "a", "n", "c", "e">>
s_confidential == <<"c", "o", "n", "f", "i", "d", "e", "n", "t", "i", "a", "l">>
s_restricted == <<"r", "e", "s", "t", "r", "i", "c", "t", "e", "d">>
s_internal == <<"i", "n", "t", "e", "r", "n", "a", "l">>
s_sensitive == <<"s", "e", "n", "s", "i", "t", "i", "v", "e">>
s_private == <<"p", "r", "i", "v", "a", "t", "e">>
s_unknown == <<"u", "n", "k", "n", "o", "w", "n">>

\* labelInfo.labels[].id, then the keys of `labels` whose value is truthy
_extract_labels(file_info) ==
    file_info.labelInfo
        \o [i \in 1..Len(SelectSeq(file_info.labels, LAMBDA kv : kv[2])) |->
               SelectSeq(file_info.labels, LAMBDA kv : kv[2])[i][1]]

_determine_sensitivity(cfg, labels, owner) ==
    LET label_lower == {Lower(labels[i]) : i \in 1..Len(labels)}
    IN  IF \E sensitive_label \in cfg.sensitive_labels :
               \E l \in label_lower : Contains(Lower(sensitive_label), l)
        THEN "high"
        ELSE IF \E term \in {s_exec, s_ceo, s_cfo, s_finance} :
                    Contains(term, Lower(owner))
        THEN "high"
        ELSE IF \E term \in {s_confidential, s_restricted, s_internal,
                             s_sensitive, s_private} :
                    \E l \in label_lower : Contains(term, l)
        THEN "medium"
        ELSE "low"

\* The FileMetadata get_file_metadata builds from a file resource.
FileMetadataOf(cfg, doc_id, file_info) ==
    LET owner == IF file_info.owners = <<>> THEN s_unknown ELSE file_info.owners[1]
        labels == _extract_labels(file_info)
    IN  [doc_id |-> doc_id, owner |-> owner, labels |-> labels,
         sensitivity |-> _determine_sensitivity(cfg, labels, owner)]

\* get_file_metadata's result as an option: <<>> for None
get_file_metadata(cfg, cache, drive, doc_id) ==
    IF doc_id \in DOMAIN cache THEN <<cache[doc_id]>>
    ELSE IF drive[doc_id] = <<>> THEN <<>>
    ELSE <<FileMetadataOf(cfg, doc_id, drive[doc_id][1])>>

\* file_cache after get_file_metadata(doc_id)
FileCacheAfter(cfg, cache, drive, doc_id) ==
    IF doc_id \in DOMAIN cache \/ drive[doc_id] = <<>> THEN cache
    ELSE cache @@ (doc_id :> FileMetadataOf(cfg, doc_id, drive[doc_id][1]))

\* enrich_finding's result
enrich_finding(cfg, cache, drive, finding_dict, doc_id) ==
    IF doc_id = None THEN finding_dict
    ELSE LET metadata == get_file_metadata(cfg, cache, drive, doc_id)
         IN  IF metadata = <<>> THEN finding_dict
             ELSE LET with_context ==
                          [finding_dict EXCEPT !.file_context =
                              <<[sensitivity |-> metadata[1].sensitivity,
                                 labels |-> metadata[1].labels,
                                 owner |-> metadata[1].owner]>>]
                  IN  IF metadata[1].sensitivity = "high"
                         /\ finding_dict.severity \in {"medium", "low"}
                      THEN [with_context EXCEPT
                               !.severity = Promote(@),
                               !.reason = Append(@, " (high-sensitivity file)")]
                      ELSE with_context

(***************************************************************************)
(* detector.py: GeminiExfilDetector._detect_reverts.                       *)
(***************************************************************************)
\* list.sort(key=timestamp) on positions of exfil_events: a stable sort
RECURSIVE InsertByTimestamp(_, _, _)
InsertByTimestamp(events, sorted, i) ==
    IF sorted = <<>> THEN <<i>>
    ELSE IF events[i].timestamp < events[Head(sorted)].timestamp
    THEN <<i>> \o sorted
    ELSE <<Head(sorted)>> \o InsertByTimestamp(events, Tail(sorted), i)

\* SortByTimestamp with `changes.sort(...)` lost: the list order is kept
SortByTimestamp_unsorted(events, positions) == positions

RECURSIVE SortByTimestamp(_, _)
SortByTimestamp(events, positions) ==
    IF positions = <<>> THEN <<>>
    ELSE InsertByTimestamp(events,
             SortByTimestamp(events, SubSeq(positions, 1, Len(positions) - 1)),
             positions[Len(positions)])

\* doc_visibility_changes[doc_id], as positions of exfil_events, in list order
VisibilityChanges(events, doc_id) ==
    SelectSeq([i \in 1..Len(events) |-> i],
              LAMBDA i : /\ events[i].doc_id # None
                         /\ events[i].doc_id = doc_id
                         /\ Contains(s_visibility, Lower(events[i].event_name)))

\* the positions the loop over one document's sorted changes flags
RevertPositions(events, changes) ==
    UNION {IF /\ events[changes[i + 1]].timestamp - events[changes[i]].timestamp
                   <= 10 * 60
              /\ events[changes[i]].visibility \in HIGH_RISK_VISIBILITY
              /\ events[changes[i + 1]].visibility \notin HIGH_RISK_VISIBILITY
           THEN {changes[i], changes[i + 1]}
           ELSE {} : i \in 1..(Len(changes) - 1)}

_detect_reverts(events) ==
    LET doc_ids == {events[i].doc_id : i \in 1..Len(events)} \ {None}
        flagged == UNION {RevertPositions(events,
                              SortByTimestamp(events, VisibilityChanges(events, d)))
                          : d \in doc_ids}
    IN  [i \in 1..Len(events) |->
            IF i \in flagged THEN [events[i] EXCEPT !.is_revert = TRUE] ELSE events[i]]

(***************************************************************************)
(* detector.py: GeminiExfilDetector.correlate_events.                      *)
(* The loops thread a record st: the findings list, matched_recon, and the *)
(* state of the classifier and of the enricher, which the calls update.    *)
(* An Optional[Dict] field of a Finding is <<>> for None and <<dict>>      *)
(* otherwise.  doc_title, ip_address and geo_anomaly are copied to the     *)
(* finding or left None and read by nothing; they are left out.            *)
(***************************************************************************)
\* round(delta_seconds / 60.0, 2) in hundredths, for delta_seconds >= 0
RoundedDeltaMinutes(delta_seconds) == (10 * delta_seconds + 3) \div 6

\* InWindow without its upper bound: `if 0 <= delta_minutes:`
InWindow_no_upper(delta_seconds, window) == 0 <= delta_seconds

\* InWindow without its lower bound: `if delta_minutes <= window_minutes:`
InWindow_no_lower(delta_seconds, window) == delta_seconds <= window * 60

\* 0 <= delta_minutes <= window_minutes
InWindow(delta_seconds, window) ==
    0 <= delta_seconds /\ delta_seconds <= window * 60

\* a downgrade that sends every legitimate finding to low
Downgrade_to_low(severity, intent) ==
    IF intent = "legitimate" THEN "low" ELSE severity

\* the intent downgrade of a finding that is kept
Downgrade(severity, intent) ==
    IF intent = "legitimate"
    THEN IF severity = "high" THEN "medium"
         ELSE IF severity = "medium" THEN "low"
         ELSE severity
    ELSE severity

\* SuppressFinding with the `continue` of line 406 lost
SuppressFinding_never(intent_analysis) == FALSE

\* whether the draft finding is dropped: `if intent_analysis["should_suppress"]: continue`
SuppressFinding(intent_analysis) == intent_analysis.should_suppress

\* the canary override of the severity triple
CanaryOverride(cfg, exfil, sev) ==
    IF exfil.doc_id # None /\ exfil.doc_id \in cfg.canary_doc_ids
    THEN [severity |-> "high",
          reason |-> <<"CANARY DOCUMENT ACCESS - ">> \o sev.reason,
          reason_codes |-> Append(sev.reason_codes, "canary_doc_access")]
    ELSE sev

\* `finding = Finding(...)`; `finding_dict = asdict(finding)`
DraftFinding(exfil, recon, delta_seconds, recon_score, sev) ==
    [severity |-> sev.severity,
     actor |-> exfil.actor,
     exfil_event |-> exfil.event_name,
     exfil_time |-> IsoFormat(exfil.timestamp),
     doc_id |-> exfil.doc_id,
     recon_action |-> recon.action,
     recon_time |-> IsoFormat(recon.timestamp),
     delta_minutes |-> RoundedDeltaMinutes(delta_seconds),
     visibility |-> exfil.visibility,
     reason |-> sev.reason,
     event_ids |-> [recon |-> recon.event_id, exfil |-> exfil.event_id],
     recon_score |-> recon_score,
     file_context |-> <<>>,
     intent_analysis |-> <<>>,
     reason_codes |-> sev.reason_codes]

\* `if self.file_enricher and exfil.doc_id:` (main always sets file_enricher)
Enriched(cfg, cache, drive, finding_dict, doc_id) ==
    IF doc_id # None
    THEN enrich_finding(cfg, cache, drive, finding_dict, doc_id)
    ELSE finding_dict

\* the arguments correlate_events gives classify_intent
ClassifyArgs(exfil) ==
    [actor |-> exfil.actor, exfil_event |-> exfil.event_name,
     doc_id |-> exfil.doc_id, doc_owner |-> exfil.owner,
     visibility |-> exfil.visibility, timestamp |-> exfil.timestamp,
     new_value |-> exfil.new_value]

\* get_file_metadata executes a request when doc_id is not in the cache
RequestsAfter(cache, requests, doc_id) ==
    IF doc_id \in DOMAIN cache THEN requests ELSE Append(requests, doc_id)

\* the components' state after the calls made for one matching recon
CalledFor(cfg, drive, exfil, st) ==
    [st EXCEPT
        !.matched_recon = TRUE,
        !.metadata_requests = IF exfil.doc_id # None
                              THEN RequestsAfter(st.file_cache, @, exfil.doc_id)
                              ELSE @,
        !.file_cache = IF exfil.doc_id # None
                       THEN FileCacheAfter(cfg, @, drive, exfil.doc_id)
                       ELSE @,
        !.domain_reputation_cache = ClassifyCacheAfter(cfg, @, ClassifyArgs(exfil)),
        !.user_baselines = BaselinesAfterGet(@, exfil.actor)]

\* a suppression that also forgets that a recon matched
KeepOrSuppress_unmatched(called, enriched, intent_analysis) ==
    IF SuppressFinding(intent_analysis)
    THEN [called EXCEPT !.matched_recon = FALSE]
    ELSE [called EXCEPT !.findings =
             Append(@, [enriched EXCEPT
                           !.intent_analysis = <<intent_analysis>>,
                           !.severity = Downgrade(@, intent_analysis.intent)])]

\* lines 400-415: suppress, or downgrade and append
KeepOrSuppress(called, enriched, intent_analysis) ==
    IF SuppressFinding(intent_analysis) THEN called
    ELSE [called EXCEPT !.findings =
             Append(@, [enriched EXCEPT
                           !.intent_analysis = <<intent_analysis>>,
                           !.severity = Downgrade(@, intent_analysis.intent)])]

\* the body of `if 0 <= delta_minutes <= window_minutes:` for one recon
MatchRecon(cfg, drive, exfil, recon, delta_seconds, recon_score, st) ==
    KeepOrSuppress(
        CalledFor(cfg, drive, exfil, st),
        Enriched(cfg, st.file_cache, drive,
                 DraftFinding(exfil, recon, delta_seconds, recon_score,
                     CanaryOverride(cfg, exfil,
                         _calculate_severity(exfil, delta_seconds, recon_score))),
                 exfil.doc_id),
        classify_intent(cfg, st.domain_reputation_cache, st.user_baselines,
                        ClassifyArgs(exfil)))

\* `for recon in recon_by_actor.get(exfil.actor, [])`
RECURSIVE MatchRecons(_, _, _, _, _, _, _)
MatchRecons(cfg, drive, window, exfil, recon_score, recons, st) ==
    IF recons = <<>> THEN st
    ELSE LET recon == Head(recons)
             delta_seconds == exfil.timestamp - recon.timestamp
         IN  MatchRecons(cfg, drive, window, exfil, recon_score, Tail(recons),
                 IF InWindow(delta_seconds, window)
                 THEN MatchRecon(cfg, drive, exfil, recon, delta_seconds,
                                 recon_score, st)
                 ELSE st)

\* IsDelayedExfil with `recon_score >= 5.0`
IsDelayedExfil_at_least(matched_recon, recon_score) ==
    ~matched_recon /\ recon_score >= 500

\* `if not matched_recon and recon_score > 5.0:`
IsDelayedExfil(matched_recon, recon_score) == ~matched_recon /\ recon_score > 500

DelayedExfilFinding(exfil, recon_score) ==
    [severity |-> "medium",
     actor |-> exfil.actor,
     exfil_event |-> exfil.event_name,
     exfil_time |-> IsoFormat(exfil.timestamp),
     doc_id |-> exfil.doc_id,
     recon_action |-> "cumulative_recon",
     recon_time |-> <<"N/A (multi-stage)">>,
     delta_minutes |-> 0,
     visibility |-> exfil.visibility,
     reason |-> <<"Delayed exfil after cumulative recon">>,
     event_ids |-> [recon |-> <<"N/A">>, exfil |-> exfil.event_id],
     recon_score |-> recon_score,
     file_context |-> <<>>,
     intent_analysis |-> <<>>,
     reason_codes |-> <<>>]

\* lines 417-436
DelayedStep(after, exfil, recon_score) ==
    IF IsDelayedExfil(after.matched_recon, recon_score)
    THEN [after EXCEPT !.findings = Append(@, DelayedExfilFinding(exfil, recon_score))]
    ELSE after

CorrelateScored(cfg, drive, recons, window, exfil, st, recon_score) ==
    DelayedStep(
        MatchRecons(cfg, drive, window, exfil, recon_score,
                    SelectSeq(recons, LAMBDA r : r.actor = exfil.actor),
                    [st EXCEPT !.matched_recon = FALSE]),
        exfil, recon_score)

\* the body of `for exfil in exfil_events`
CorrelateExfil(cfg, drive, store, recons, window, exfil, st) ==
    CorrelateScored(cfg, drive, recons, window, exfil, st,
                    get_recon_score(store, exfil.actor, exfil.timestamp))

RECURSIVE CorrelateLoop(_, _, _, _, _, _, _)
CorrelateLoop(cfg, drive, store, recons, window, exfils, st) ==
    IF exfils = <<>> THEN st
    ELSE CorrelateLoop(cfg, drive, store, recons, window, Tail(exfils),
             CorrelateExfil(cfg, drive, store, recons, window, Head(exfils), st))

\* the state after correlate_events(recon_events, exfil_events, window_minutes)
correlate_events(cfg, drive, store, recons, exfils, window, baselines, cache, fcache) ==
    CorrelateLoop(cfg, drive, store, recons, window, exfils,
        [findings |-> <<>>,
         matched_recon |-> FALSE,
         user_baselines |-> build_baselines_from_history(baselines, exfils),
         domain_reputation_cache |-> cache,
         file_cache |-> fcache,
         metadata_requests |-> <<>>])

(***************************************************************************)
(* The pipeline driver (detector.py: main): fetch_recon_events, then       *)
(* fetch_exfil_events (which ends with _detect_reverts), then              *)
(* correlate_events.  What the ActivitySource and the FileMetadataSource   *)
(* return, and the configuration, are drawn from the sets below.           *)
(***************************************************************************)
MaxRecon == 2
MaxDrive == 2

\* Wednesday 2024-01-10T09:00:00Z
T0 == 2 * 86400 + 9 * 3600

alice == <<"a", "@", "c", ".", "c", "o">>
bob == <<"b", "@", "c", ".", "c", "o">>
v_trusted == <<"x", "@", "t", ".", "c", "o">>
v_partner == <<"y", "@", "p", ".", "i", "o">>
d_trusted == <<"t", ".", "c", "o">>
d_partner == <<"p", ".", "i", "o">>
l_PII == <<"P", "I", "I">>
l_pii_restricted ==
    <<"p", "i", "i", "-", "r", "e", "s", "t", "r", "i", "c", "t", "e", "d">>

DefaultConfig ==
    [canary_doc_ids |-> {"D9"},
     allowed_external_domains |-> {d_trusted},
     partner_domains |-> {d_partner},
     sensitive_labels |-> {l_PII}]

DocIds == {"D1", "D2", "D9"}

\* The metadata source answers: D1 carries a sensitive label, D2 none, and
\* the request for D9 raises.
DriveUp ==
    [d \in DocIds |->
        IF d = "D1" THEN <<[owners |-> <<bob>>, labelInfo |-> <<l_pii_restricted>>,
                            labels |-> <<>>]>>
        ELSE IF d = "D2" THEN <<[owners |-> <<alice>>, labelInfo |-> <<>>,
                                 labels |-> <<>>]>>
        ELSE <<>>]

\* Every request to the metadata source raises.
DriveDown == [d \in DocIds |-> <<>>]

\* (window_minutes, metadata source) of a run
Runs == {<<30, DriveUp>>, <<30, DriveDown>>, <<5, DriveUp>>, <<40, DriveUp>>}

GeminiEvent(actor, timestamp, app_name, action) ==
    [actor |-> actor, timestamp |-> timestamp, app_name |-> app_name, action |-> action]

GeminiFeed ==
    {GeminiEvent(alice, t, "docs", a) :
        t \in {T0, T0 + 1860}, a \in {"catch_me_up", "ask_about_this_file"}}
    \cup {GeminiEvent(bob, T0, "docs", "catch_me_up"),
          GeminiEvent(alice, T0, "docs", "help_me_write")}

DriveEvent(actor, timestamp, name, visibility, doc_id, new_value, owner) ==
    [actor |-> actor, timestamp |-> timestamp, name |-> name,
     visibility |-> visibility, doc_id |-> doc_id, new_value |-> new_value,
     owner |-> owner]

DriveFeed ==
    {DriveEvent(alice, T0 + 300, n_change_user_access, "shared_externally", "D1",
                NoStr, NoStr),
     DriveEvent(alice, T0, s_change_visibility, "public_on_the_web", "D2", NoStr, NoStr),
     DriveEvent(alice, T0 + 300, s_change_visibility, "public_on_the_web", "D2",
                NoStr, NoStr),
     DriveEvent(alice, T0 + 300, s_change_visibility, "private", "D2", NoStr, NoStr),
     DriveEvent(alice, T0 + 1800, s_change_visibility, "private", "D2", NoStr, NoStr),
     DriveEvent(alice, T0 + 300, s_create_shortcut, None, "D9", NoStr, NoStr),
     DriveEvent(alice, T0 + 2100, s_create_shortcut, None, "D9", NoStr, NoStr),
     DriveEvent(alice, T0 + 300, s_download, None, "D9", v_partner, alice),
     DriveEvent(alice, T0 + 1800, s_download, None, "D9", v_partner, alice),
     DriveEvent(alice, T0, s_export, None, "D1", v_trusted, NoStr),
     DriveEvent(alice, T0 + 1800, s_export, None, "D1", v_trusted, NoStr),
     DriveEvent(alice, T0 + 1800, s_move, None, "D1", NoStr, NoStr),
     DriveEvent(alice, T0 + 2100, s_move, None, "D1", NoStr, NoStr),
     DriveEvent(alice, T0 + 1800, s_move, None, "D1", v_partner, NoStr),
     DriveEvent(bob, T0 + 300, s_move, None, None, NoStr, NoStr)}

NoCall == [op |-> "none"]

Init ==
    /\ metadata_requests = <<>>
    /\ MemoryTracker
    /\ pc = "fetch_recon"
    /\ config = DefaultConfig
    /\ recon_events = <<>>
    /\ drive_activities = <<>>
    /\ exfil_events = <<>>
    /\ memory_store = <<>>
    /\ user_baselines = <<>>
    /\ domain_reputation_cache = <<>>
    /\ file_cache = <<>>
    /\ findings = <<>>
    /\ window_minutes = 0
    /\ call = NoCall

\* fetch_recon_events: one event of one Gemini activity
FetchReconEvent(g) ==
    /\ pc = "fetch_recon"
    /\ Len(recon_events) < MaxRecon
    /\ IF g.action \in RECON_ACTIONS /\ g.app_name \in RECON_APPS
       THEN /\ recon_events' =
                   Append(recon_events,
                       [actor |-> g.actor, timestamp |-> g.timestamp, app |-> g.app_name,
                        action |-> g.action,
                        event_id |-> <<"gemini", Len(recon_events) + 1>>])
            /\ memory_store' =
                   record_recon(memory_store, g.actor, g.timestamp, g.app_name, g.action)
       ELSE UNCHANGED <<recon_events, memory_store>>
    /\ UNCHANGED tracker_vars
    /\ UNCHANGED metadata_requests
    /\ UNCHANGED <<pc, config, drive_activities, exfil_events, user_baselines,
                   domain_reputation_cache, file_cache, findings, window_minutes, call>>

\* `any(pattern in event_name for pattern in EXFIL_EVENT_PATTERNS)`
IsExfilEvent(event_name) == \E pattern \in EXFIL_EVENT_PATTERNS : Contains(pattern, event_name)

\* fetch_exfil_events: one event of one Drive activity
FetchExfilEvent(d) ==
    /\ pc \in {"fetch_recon", "fetch_exfil"}
    /\ Len(drive_activities) < MaxDrive
    /\ pc' = "fetch_exfil"
    /\ drive_activities' = Append(drive_activities, d)
    /\ IF IsExfilEvent(d.name)
       THEN exfil_events' =
                Append(exfil_events,
                    [actor |-> d.actor, timestamp |-> d.timestamp, event_name |-> d.name,
                     doc_id |-> d.doc_id, visibility |-> d.visibility,
                     new_value |-> d.new_value, owner |-> d.owner,
                     event_id |-> <<"drive", Len(drive_activities) + 1>>,
                     is_revert |-> FALSE])
       ELSE UNCHANGED exfil_events
    /\ UNCHANGED tracker_vars
    /\ UNCHANGED metadata_requests
    /\ UNCHANGED <<config, recon_events, memory_store, user_baselines,
                   domain_reputation_cache, file_cache, findings, window_minutes, call>>

\* the end of fetch_exfil_events: `exfil_events = self._detect_reverts(exfil_events)`
DetectReverts ==
    /\ pc \in {"fetch_recon", "fetch_exfil"}
    /\ pc' = "correlate"
    /\ exfil_events' = _detect_reverts(exfil_events)
    /\ UNCHANGED tracker_vars
    /\ UNCHANGED metadata_requests
    /\ UNCHANGED <<config, recon_events, drive_activities, memory_store, user_baselines,
                   domain_reputation_cache, file_cache, findings, window_minutes, call>>

\* correlate_events(recon_events, exfil_events, window)
CorrelateEvents(window, drive) ==
    /\ pc = "correlate"
    /\ pc' = "done"
    /\ window_minutes' = window
    /\ LET st == correlate_events(config, drive, memory_store, recon_events,
                                  exfil_events, window, user_baselines,
                                  domain_reputation_cache, file_cache)
       IN  /\ findings' = st.findings
           /\ user_baselines' = st.user_baselines
           /\ domain_reputation_cache' = st.domain_reputation_cache
           /\ file_cache' = st.file_cache
           /\ metadata_requests' = metadata_requests \o st.metadata_requests
    /\ UNCHANGED tracker_vars
    /\ UNCHANGED <<config, recon_events, drive_activities, exfil_events, memory_store,
                   call>>

Next ==
    \/ \E g \in GeminiFeed : FetchReconEvent(g)
    \/ \E d \in DriveFeed : FetchExfilEvent(d)
    \/ DetectReverts
    \/ \E run \in Runs : CorrelateEvents(run[1], run[2])

Spec == Init /\ [][Next]_vars


(***************************************************************************)
(* Properties of correlate_events, checked under Spec.                     *)
(* In a run every activity carries one event, so an event id names one     *)
(* event and a finding's event_ids name the recon and the egress it pairs. *)
(***************************************************************************)
IsPaired(f) == f.recon_action # "cumulative_recon"

IsDelayed(f) == f.recon_action = "cumulative_recon"

\* the positions of the findings that pair recon r with egress e
PairedFindings(r, e) ==
    {i \in 1..Len(findings) :
        /\ IsPaired(findings[i])
        /\ findings[i].event_ids.recon = r.event_id
        /\ findings[i].event_ids.exfil = e.event_id}

\* the positions of the delayed-exfil findings of egress e
DelayedFindings(e) ==
    {i \in 1..Len(findings) :
        /\ IsDelayed(findings[i])
        /\ findings[i].event_ids.exfil = e.event_id}

\* recon r of the same actor lies within [0, window] minutes before egress e
LiesInWindow(r, e, window) ==
    /\ r.actor = e.actor
    /\ 0 <= e.timestamp - r.timestamp
    /\ e.timestamp - r.timestamp <= window * 60

\* classification of egress e asks for suppression
ClassifiedSuppress(e) ==
    classify_intent(config, domain_reputation_cache, user_baselines,
                    ClassifyArgs(e)).should_suppress

\* C1: no finding that correlate_events returns carries an intent_analysis
\* whose should_suppress is true, and an egress whose classification returns
\* should_suppress = true has no finding paired with any of its recons.
C1_NoSuppressedFinding ==
    /\ \A i \in 1..Len(findings) :
          findings[i].intent_analysis # <<>>
              => ~findings[i].intent_analysis[1].should_suppress
    /\ pc = "done" =>
          \A j \in 1..Len(exfil_events) : \A k \in 1..Len(recon_events) :
              ClassifiedSuppress(exfil_events[j])
                  => PairedFindings(recon_events[k], exfil_events[j]) = {}

\* a run where an egress to a trusted domain has a recon in the window and is
\* dropped, while another egress of the same run is reported
C1_Witness ==
    /\ pc = "done"
    /\ \E j \in 1..Len(exfil_events) : \E k \in 1..Len(recon_events) :
          /\ LiesInWindow(recon_events[k], exfil_events[j], window_minutes)
          /\ ClassifiedSuppress(exfil_events[j])
          /\ PairedFindings(recon_events[k], exfil_events[j]) = {}
    /\ \E i \in 1..Len(findings) : IsPaired(findings[i])

\* C2: every finding that pairs a recon with an egress whose doc_id is in
\* canary_doc_ids has severity high, whatever the intent classification.
C2_CanaryAlwaysHigh ==
    \A i \in 1..Len(findings) :
        (IsPaired(findings[i]) /\ findings[i].doc_id \in config.canary_doc_ids)
            => findings[i].severity = "high"

\* C3: delta_minutes of a finding that pairs an egress with a recon is at
\* least 0 and at most window_minutes; delta_minutes of a delayed-exfil
\* finding is 0.0.
C3_DeltaInWindow ==
    pc = "done" =>
        \A i \in 1..Len(findings) :
            IF IsPaired(findings[i])
            THEN /\ 0 <= findings[i].delta_minutes
                 /\ findings[i].delta_minutes <= window_minutes * 100
            ELSE findings[i].delta_minutes = 0

\* a run that returns a paired finding at delta_minutes = window_minutes,
\* a paired finding inside the window and a delayed-exfil finding
C3_Witness ==
    /\ pc = "done"
    /\ \E i \in 1..Len(findings) :
          IsPaired(findings[i]) /\ findings[i].delta_minutes = window_minutes * 100
    /\ \E i \in 1..Len(findings) : IsDelayed(findings[i])

\* C4 as amended: a recon R and an egress E are paired into a finding only
\* if they have the same actor and E.timestamp is at or after R.timestamp;
\* a pair with equal timestamps is matched, with delta_minutes 0.0, and is
\* reported unless the classifier suppresses it.
C4_MatchesAtOrAfterRecon ==
    pc = "done" =>
        \A j \in 1..Len(exfil_events) : \A k \in 1..Len(recon_events) :
            /\ PairedFindings(recon_events[k], exfil_events[j]) # {}
                  => /\ recon_events[k].actor = exfil_events[j].actor
                     /\ recon_events[k].timestamp <= exfil_events[j].timestamp
            /\ (/\ recon_events[k].actor = exfil_events[j].actor
                /\ recon_events[k].timestamp = exfil_events[j].timestamp
                /\ ~ClassifiedSuppress(exfil_events[j]))
                  => \E i \in PairedFindings(recon_events[k], exfil_events[j]) :
                         findings[i].delta_minutes = 0

\* a run with a finding for a recon and an egress of equal timestamps, and
\* with a recon that follows an egress of its actor and is not paired with it
C4_Witness ==
    /\ pc = "done"
    /\ \E j \in 1..Len(exfil_events) : \E k \in 1..Len(recon_events) :
          /\ recon_events[k].timestamp = exfil_events[j].timestamp
          /\ PairedFindings(recon_events[k], exfil_events[j]) # {}
    /\ \E j \in 1..Len(exfil_events) : \E k \in 1..Len(recon_events) :
          /\ recon_events[k].actor = exfil_events[j].actor
          /\ recon_events[k].timestamp > exfil_events[j].timestamp
          /\ PairedFindings(recon_events[k], exfil_events[j]) = {}

\* C4 as stated: a recon and an egress are paired only if the egress is
\* strictly after the recon; equal timestamps never produce a finding.
C4_StrictlyAfterRecon ==
    \A j \in 1..Len(exfil_events) : \A k \in 1..Len(recon_events) :
        PairedFindings(recon_events[k], exfil_events[j]) # {}
            => recon_events[k].timestamp < exfil_events[j].timestamp

\* egress e has no recon of its actor within [0, window_minutes] before it
Unmatched(e) ==
    \A k \in 1..Len(recon_events) : ~LiesInWindow(recon_events[k], e, window_minutes)

\* C5: for each egress E, exactly one delayed-exfil finding (medium,
\* cumulative_recon, "N/A (multi-stage)", 0.0, {recon: "N/A", exfil: E.event_id})
\* is returned if and only if no recon of E.actor lies within
\* [0, window_minutes] before E and the recon score of E.actor at E.timestamp
\* is strictly greater than 5.0; otherwise none is.
C5_DelayedExfilExactlyWhen ==
    pc = "done" =>
        \A j \in 1..Len(exfil_events) :
            IF /\ Unmatched(exfil_events[j])
               /\ get_recon_score(memory_store, exfil_events[j].actor,
                                  exfil_events[j].timestamp) > 500
            THEN /\ Cardinality(DelayedFindings(exfil_events[j])) = 1
                 /\ \A i \in DelayedFindings(exfil_events[j]) :
                       /\ findings[i].severity = "medium"
                       /\ findings[i].recon_time = <<"N/A (multi-stage)">>
                       /\ findings[i].delta_minutes = 0
                       /\ findings[i].event_ids.recon = <<"N/A">>
                       /\ findings[i].actor = exfil_events[j].actor
            ELSE DelayedFindings(exfil_events[j]) = {}

\* a run with an unmatched egress at a score of exactly 5.0, which has no
\* finding, and an unmatched egress at a score above 5.0, which has one
C5_Witness ==
    /\ pc = "done"
    /\ \E j \in 1..Len(exfil_events) :
          /\ Unmatched(exfil_events[j])
          /\ get_recon_score(memory_store, exfil_events[j].actor,
                             exfil_events[j].timestamp) = 500
          /\ DelayedFindings(exfil_events[j]) = {}
    /\ \E j \in 1..Len(exfil_events) :
          /\ Unmatched(exfil_events[j])
          /\ get_recon_score(memory_store, exfil_events[j].actor,
                             exfil_events[j].timestamp) > 500
          /\ DelayedFindings(exfil_events[j]) # {}

\* the run of the scenario: one recon (ask_about_this_file in docs at
\* 09:00:00Z) and one Drive activity of the same actor at 09:05:00Z, named
\* change_user_access with visibility shared_externally
C8_Scenario ==
    /\ pc = "done"
    /\ Len(recon_events) = 1
    /\ recon_events[1].action = "ask_about_this_file"
    /\ recon_events[1].app = "docs"
    /\ recon_events[1].timestamp = T0
    /\ Len(drive_activities) = 1
    /\ drive_activities[1].actor = recon_events[1].actor
    /\ drive_activities[1].name = n_change_user_access
    /\ drive_activities[1].visibility = "shared_externally"
    /\ drive_activities[1].timestamp = T0 + 5 * 60

\* C8: in that run the activity is ingested as an egress event and the run
\* returns exactly one finding, of severity high and reason_codes
\* [external_share_immediate].
C8_ImmediateExternalShare ==
    C8_Scenario =>
        /\ Len(exfil_events) = 1
        /\ Len(findings) = 1
        /\ findings[1].severity = "high"
        /\ findings[1].reason_codes = <<"external_share_immediate">>


(***************************************************************************)
(* Direct calls of _calculate_severity(exfil, delta_minutes, recon_score). *)
(***************************************************************************)
SeverityNames ==
    {s_change_acl, s_change_visibility, s_download, s_export, s_transfer_ownership,
     s_create_shortcut, s_publish_to_web, s_move, n_download_create_shortcut,
     n_change_user_access}

SeverityVisibilities == {None, "private", "shared_externally", "people_with_link"}

\* delta in seconds: around 0, 10 minutes and 30 minutes
SeverityDeltas == {-60, 0, 300, 600, 601, 1800, 1801, 2400}

\* recon_score in hundredths: around 5.0 and 10.0
SeverityScores == {0, 499, 500, 999, 1000, 1500}

ExfilEvent(actor, timestamp, event_name, doc_id, visibility, new_value, owner, event_id, is_revert) ==
    [actor |-> actor, timestamp |-> timestamp, event_name |-> event_name,
     doc_id |-> doc_id, visibility |-> visibility, new_value |-> new_value,
     owner |-> owner, event_id |-> event_id, is_revert |-> is_revert]

InitSeverity ==
    /\ metadata_requests = <<>>
    /\ MemoryTracker
    /\ pc = "severity"
    /\ config = DefaultConfig
    /\ recon_events = <<>>
    /\ drive_activities = <<>>
    /\ exfil_events = <<>>
    /\ memory_store = <<>>
    /\ user_baselines = <<>>
    /\ domain_reputation_cache = <<>>
    /\ file_cache = <<>>
    /\ findings = <<>>
    /\ window_minutes = 0
    /\ call = NoCall

\* one call of _calculate_severity
CalculateSeverity(exfil, delta_seconds, recon_score) ==
    /\ pc = "severity"
    /\ pc' = "returned"
    /\ call' = [op |-> "_calculate_severity", exfil |-> exfil,
                delta_seconds |-> delta_seconds, recon_score |-> recon_score,
                result |-> _calculate_severity(exfil, delta_seconds, recon_score)]
    /\ UNCHANGED tracker_vars
    /\ UNCHANGED metadata_requests
    /\ UNCHANGED <<config, recon_events, drive_activities, exfil_events,
                   memory_store, user_baselines, domain_reputation_cache, file_cache,
                   findings, window_minutes>>

NextSeverity ==
    \E n \in SeverityNames, v \in SeverityVisibilities, r \in BOOLEAN,
       d \in SeverityDeltas, score \in SeverityScores :
        CalculateSeverity(
            ExfilEvent(alice, T0, n, "D1", v, NoStr, NoStr, <<"drive", 1>>, r),
            d, score)

SpecSeverity == InitSeverity /\ [][NextSeverity]_vars

(***************************************************************************)
(* Properties of _calculate_severity, checked under SpecSeverity.          *)
(***************************************************************************)
\* the classes of egress event the base-severity table names
C6_external_share(e) ==
    /\ Contains(s_change_acl, e.event_name) \/ Contains(s_change_visibility, e.event_name)
    /\ e.visibility \in {"people_with_link", "public_on_the_web", "shared_externally"}

C6_export_download(e) ==
    Contains(s_download, e.event_name) \/ Contains(s_export, e.event_name)

C6_ownership_transfer(e) == Contains(s_transfer_ownership, e.event_name)

C6_shortcut(e) == Contains(s_create_shortcut, e.event_name)

C6_publish(e) == Contains(s_publish_to_web, e.event_name)

\* the rows of the base-severity table, top to bottom
C6_Table(e, delta_seconds) ==
    <<[when |-> e.is_revert,
       severity |-> "high", code |-> "external_toggle_revert"],
      [when |-> /\ delta_seconds <= 10 * 60
                /\ C6_external_share(e) \/ C6_ownership_transfer(e) \/ C6_publish(e),
       severity |-> "high", code |-> "external_share_immediate"],
      [when |-> delta_seconds <= 10 * 60 /\ C6_export_download(e),
       severity |-> "high", code |-> "export_immediate"],
      [when |-> delta_seconds <= 10 * 60 /\ C6_shortcut(e),
       severity |-> "medium", code |-> "shortcut_immediate"],
      [when |-> delta_seconds <= 10 * 60,
       severity |-> "medium", code |-> "activity_immediate"],
      [when |-> /\ delta_seconds <= 30 * 60
                /\ C6_external_share(e) \/ C6_export_download(e)
                      \/ C6_ownership_transfer(e),
       severity |-> "medium", code |-> "suspicious_30min"],
      [when |-> TRUE,
       severity |-> "low", code |-> "activity_correlated"]>>

\* the first row of the table whose condition holds
C6_FirstRow(table) ==
    table[CHOOSE k \in 1..Len(table) :
              table[k].when /\ \A j \in 1..(k - 1) : ~table[j].when]

\* C6: for every egress event, delta and recon_score < 5.0,
\* _calculate_severity returns the severity of the first row of the
\* base-severity table that matches, one of high, medium and low, and that
\* row's code as its only reason code.
C6_BaseSeverityTable ==
    (call.op = "_calculate_severity" /\ call.recon_score < 500) =>
        /\ call.result.severity \in {"high", "medium", "low"}
        /\ call.result.severity =
               C6_FirstRow(C6_Table(call.exfil, call.delta_seconds)).severity
        /\ call.result.reason_codes =
               <<C6_FirstRow(C6_Table(call.exfil, call.delta_seconds)).code>>

\* a call where two rows match (a download that is also a shortcut, at
\* exactly 10 minutes) and the first one wins
C6_Witness ==
    /\ call.op = "_calculate_severity"
    /\ call.recon_score = 499
    /\ call.delta_seconds = 10 * 60
    /\ ~call.exfil.is_revert
    /\ C6_export_download(call.exfil) /\ C6_shortcut(call.exfil)
    /\ call.result.reason_codes = <<"export_immediate">>
    /\ call.result.severity = "high"

\* C7: with recon_score >= 10.0 the code high_recon_score follows the base
\* code and the base severity is promoted one step (low to medium, medium to
\* high, high stays high); with 5.0 <= recon_score < 10.0 the code
\* elevated_recon_score follows and the severity is the base severity; with
\* recon_score < 5.0 only the base code is returned, with the base severity.
C7_ReconAmplification ==
    call.op = "_calculate_severity" =>
        LET base == BaseSeverity(call.exfil, call.delta_seconds)
        IN  IF call.recon_score >= 1000
            THEN /\ call.result.reason_codes = <<base.code, "high_recon_score">>
                 /\ call.result.severity =
                        CASE base.severity = "low" -> "medium"
                          [] base.severity = "medium" -> "high"
                          [] base.severity = "high" -> "high"
            ELSE IF call.recon_score >= 500
            THEN /\ call.result.reason_codes = <<base.code, "elevated_recon_score">>
                 /\ call.result.severity = base.severity
            ELSE /\ call.result.reason_codes = <<base.code>>
                 /\ call.result.severity = base.severity

\* a call at a score of exactly 10.0 whose base severity is low
C7_Witness ==
    /\ call.op = "_calculate_severity"
    /\ call.recon_score = 1000
    /\ BaseSeverity(call.exfil, call.delta_seconds).severity = "low"
    /\ call.result.severity = "medium"
    /\ call.result.reason_codes = <<"activity_correlated", "high_recon_score">>

(***************************************************************************)
(* Direct calls of _detect_reverts on a batch of egress events whose       *)
(* is_revert flags are all false.                                          *)
(***************************************************************************)
MaxBatch == 3

RevertFeed ==
    {[name |-> s_change_visibility, doc_id |-> "D2", visibility |-> v, timestamp |-> t] :
        v \in {"public_on_the_web", "private"},
        t \in {T0, T0 + 300, T0 + 600, T0 + 601}}
    \cup {[name |-> n_Change_Visibility, doc_id |-> "D2",
           visibility |-> "people_with_link", timestamp |-> T0],
          [name |-> s_download, doc_id |-> "D2",
           visibility |-> "public_on_the_web", timestamp |-> T0],
          [name |-> s_change_visibility, doc_id |-> None,
           visibility |-> "public_on_the_web", timestamp |-> T0],
          [name |-> s_change_visibility, doc_id |-> None,
           visibility |-> "private", timestamp |-> T0 + 300],
          [name |-> s_change_visibility, doc_id |-> "D1",
           visibility |-> None, timestamp |-> T0 + 300],
          [name |-> s_change_visibility, doc_id |-> "D1",
           visibility |-> "shared_externally", timestamp |-> T0]}

InitRevert ==
    /\ metadata_requests = <<>>
    /\ MemoryTracker
    /\ pc = "batch"
    /\ config = DefaultConfig
    /\ recon_events = <<>>
    /\ drive_activities = <<>>
    /\ exfil_events = <<>>
    /\ memory_store = <<>>
    /\ user_baselines = <<>>
    /\ domain_reputation_cache = <<>>
    /\ file_cache = <<>>
    /\ findings = <<>>
    /\ window_minutes = 0
    /\ call = NoCall

\* the caller puts one more ExfilEvent into the batch
BatchEvent(d) ==
    /\ pc = "batch"
    /\ Len(exfil_events) < MaxBatch
    /\ exfil_events' =
           Append(exfil_events,
               ExfilEvent(alice, d.timestamp, d.name, d.doc_id, d.visibility, NoStr,
                          NoStr, <<"drive", Len(exfil_events) + 1>>, FALSE))
    /\ UNCHANGED tracker_vars
    /\ UNCHANGED metadata_requests
    /\ UNCHANGED <<pc, config, recon_events, drive_activities, memory_store,
                   user_baselines, domain_reputation_cache, file_cache, findings,
                   window_minutes, call>>

\* _detect_reverts(exfil_events)
DetectRevertsCall ==
    /\ pc = "batch"
    /\ pc' = "reverted"
    /\ exfil_events' = _detect_reverts(exfil_events)
    /\ call' = [op |-> "_detect_reverts"]
    /\ UNCHANGED tracker_vars
    /\ UNCHANGED metadata_requests
    /\ UNCHANGED <<config, recon_events, drive_activities, memory_store,
                   user_baselines, domain_reputation_cache, file_cache, findings,
                   window_minutes>>

NextRevert ==
    \/ \E d \in RevertFeed : BatchEvent(d)
    \/ DetectRevertsCall

SpecRevert == InitRevert /\ [][NextRevert]_vars

(***************************************************************************)
(* Properties of _detect_reverts, checked under SpecRevert.  The events of *)
(* a batch are compared in the order of (timestamp, position in the        *)
(* batch): the time-ascending order that keeps the batch order of events   *)
(* with equal timestamps.                                                  *)
(***************************************************************************)
C9_Before(i, j) ==
    \/ exfil_events[i].timestamp < exfil_events[j].timestamp
    \/ /\ exfil_events[i].timestamp = exfil_events[j].timestamp
       /\ i < j

\* event i has a doc_id and its name contains "visibility": in any letter
\* case, or as written
C9_VisibilityChange(i, any_case) ==
    /\ exfil_events[i].doc_id # None
    /\ Contains(s_visibility,
                IF any_case THEN Lower(exfil_events[i].event_name)
                ELSE exfil_events[i].event_name)

\* (i, j) is an adjacent pair (curr, next) of the changes of one document,
\* at most 10 minutes apart, from a high-risk visibility to another one
C9_RevertPair(i, j, any_case) ==
    /\ C9_VisibilityChange(i, any_case) /\ C9_VisibilityChange(j, any_case)
    /\ exfil_events[i].doc_id = exfil_events[j].doc_id
    /\ C9_Before(i, j)
    /\ \A k \in 1..Len(exfil_events) :
          ~(/\ C9_VisibilityChange(k, any_case)
            /\ exfil_events[k].doc_id = exfil_events[i].doc_id
            /\ C9_Before(i, k) /\ C9_Before(k, j))
    /\ exfil_events[j].timestamp - exfil_events[i].timestamp <= 10 * 60
    /\ exfil_events[i].visibility
           \in {"people_with_link", "public_on_the_web", "shared_externally"}
    /\ exfil_events[j].visibility
           \notin {"people_with_link", "public_on_the_web", "shared_externally"}

C9_Flagged(any_case) ==
    pc = "reverted" =>
        \A i \in 1..Len(exfil_events) :
            exfil_events[i].is_revert <=>
                \E j \in 1..Len(exfil_events) :
                    C9_RevertPair(i, j, any_case) \/ C9_RevertPair(j, i, any_case)

MaxDownloads == 11
MaxShares == 1

d_Trusted == <<"T", ".", "c", "o">>
d_unknown == <<"u", ".", "o", "r", "g">>
v_trusted_upper == <<"x", "@", "T", ".", "C", "O">>
v_trusted_spaced == <<"x", "@", "t", ".", "c", "o", " ">>
v_unknown == <<"n", "@", "u", ".", "o", "r", "g">>
v_two_at == <<"n", "@", "u", ".", "o", "r", "g", "@", "t", ".", "c", "o">>

\* the configuration lists its trusted domain as "T.co"
MixedCaseConfig ==
    [canary_doc_ids |-> {"D9"},
     allowed_external_domains |-> {d_Trusted},
     partner_domains |-> {d_partner},
     sensitive_labels |-> {l_PII}]

IntentConfigs == {DefaultConfig, MixedCaseConfig}

\* 22:00 on the Wednesday of T0
T_night == T0 + 13 * 3600

IntentCall(exfil_event, doc_owner, visibility, timestamp, new_value) ==
    [actor |-> alice, exfil_event |-> exfil_event, doc_id |-> "D1",
     doc_owner |-> doc_owner, visibility |-> visibility, timestamp |-> timestamp,
     new_value |-> new_value]

\* the arguments of the calls of classify_intent: every combination of the
\* signals for four destinations, and one call for each other shape of
\* new_value and visibility
IntentCalls ==
    {IntentCall(e, o, None, t, nv) :
        e \in {s_download, s_change_visibility}, o \in {NoStr, alice, bob},
        t \in {T0, T_night}, nv \in {NoStr, v_trusted, v_partner, v_unknown}}
    \cup {IntentCall(s_change_visibility, NoStr, "shared_externally", T0, NoStr),
          IntentCall(s_change_visibility, NoStr, "shared_externally", T0, d_trusted),
          IntentCall(s_download, bob, None, T_night, v_trusted_upper),
          IntentCall(s_download, NoStr, None, T0, v_trusted_spaced),
          IntentCall(s_download, NoStr, None, T0, v_two_at)}

InitIntent ==
    /\ metadata_requests = <<>>
    /\ MemoryTracker
    /\ pc = "intent"
    /\ config \in IntentConfigs
    /\ recon_events = <<>>
    /\ drive_activities = <<>>
    /\ exfil_events = <<>>
    /\ memory_store = <<>>
    /\ user_baselines = <<>>
    /\ domain_reputation_cache = <<>>
    /\ file_cache = <<>>
    /\ findings = <<>>
    /\ window_minutes = 0
    /\ call = NoCall

\* classify_intent(actor, exfil_event, doc_id, doc_owner, visibility, timestamp, new_value);
\* `previous` holds the result of the call just before when that was a
\* classify_intent with the same arguments
ClassifyIntent(a) ==
    /\ pc = "intent"
    /\ call' = [op |-> "classify_intent", args |-> a,
                result |-> classify_intent(config, domain_reputation_cache,
                                           user_baselines, a),
                previous |-> IF call.op = "classify_intent" /\ call.args = a
                             THEN <<call.result>> ELSE <<>>]
    /\ domain_reputation_cache' = ClassifyCacheAfter(config, domain_reputation_cache, a)
    /\ user_baselines' = BaselinesAfterGet(user_baselines, a.actor)
    /\ UNCHANGED tracker_vars
    /\ UNCHANGED metadata_requests
    /\ UNCHANGED <<pc, config, recon_events, drive_activities, exfil_events,
                   memory_store, file_cache, findings, window_minutes>>

\* update_baseline(actor, exfil_event, destination_domain)
UpdateBaseline(actor, exfil_event, destination_domain) ==
    /\ pc = "intent"
    /\ IsDownloadOrExport(exfil_event) =>
           _get_or_create_baseline(user_baselines, actor).typical_download_count
               < MaxDownloads
    /\ destination_domain # NoStr =>
           _get_or_create_baseline(user_baselines, actor).typical_share_count
               < MaxShares
    /\ user_baselines' =
           update_baseline(user_baselines, actor, exfil_event, destination_domain)
    /\ call' = [op |-> "update_baseline"]
    /\ UNCHANGED tracker_vars
    /\ UNCHANGED metadata_requests
    /\ UNCHANGED <<pc, config, recon_events, drive_activities, exfil_events,
                   memory_store, domain_reputation_cache, file_cache, findings,
                   window_minutes>>

NextIntent ==
    \/ \E a \in IntentCalls : ClassifyIntent(a)
    \/ UpdateBaseline(alice, s_download, NoStr)
    \/ UpdateBaseline(alice, s_change_visibility, d_partner)

SpecIntent == InitIntent /\ [][NextIntent]_vars

\* the three adjustments of a severity, as the rules state them
C20_CanaryOverride(e, severity) ==
    IF e.doc_id \in config.canary_doc_ids THEN "high" ELSE severity

C20_FilePromotion(f, severity) ==
    IF f.file_context # <<>> /\ f.file_context[1].sensitivity = "high"
    THEN CASE severity = "medium" -> "high"
           [] severity = "low" -> "medium"
           [] OTHER -> severity
    ELSE severity

C20_IntentDowngrade(f, severity) ==
    IF f.intent_analysis[1].intent = "legitimate"
    THEN CASE severity = "high" -> "medium"
           [] severity = "medium" -> "low"
           [] OTHER -> severity
    ELSE severity

C20_FinalSeverity(f, r, e) ==
    C20_IntentDowngrade(f,
        C20_FilePromotion(f,
            C20_CanaryOverride(e,
                _calculate_severity(e, e.timestamp - r.timestamp,
                                    f.recon_score).severity)))

\* C20: the severity of a finding that pairs a recon with an egress is the
\* severity _calculate_severity returns, after the canary override, then the
\* file-sensitivity promotion, then the intent downgrade: one step down for
\* legitimate, none for suspicious or malicious; a download or export within
\* 10 minutes of the recon that is classified legitimate comes out medium.
C20_SeverityOrder ==
    pc = "done" =>
        \A i \in 1..Len(findings) :
            \A j \in 1..Len(exfil_events) : \A k \in 1..Len(recon_events) :
                i \in PairedFindings(recon_events[k], exfil_events[j]) =>
                    /\ findings[i].severity =
                           C20_FinalSeverity(findings[i], recon_events[k],
                                             exfil_events[j])
                    /\ (/\ is_export_download(exfil_events[j])
                        /\ exfil_events[j].timestamp - recon_events[k].timestamp
                               <= 600
                        /\ findings[i].intent_analysis[1].intent = "legitimate")
                       => findings[i].severity = "medium"

\* a run that returns a download five minutes after the recon, classified
\* legitimate and lowered from high to medium, and a finding on a
\* high-sensitivity file that was promoted from low to medium and then,
\* being legitimate, lowered to low
C20_Witness ==
    /\ pc = "done"
    /\ \E i \in 1..Len(findings) :
          /\ IsPaired(findings[i])
          /\ findings[i].exfil_event = s_download
          /\ findings[i].delta_minutes = 500
          /\ findings[i].intent_analysis[1].intent = "legitimate"
          /\ findings[i].severity = "medium"
    /\ \E i \in 1..Len(findings) :
          /\ IsPaired(findings[i])
          /\ findings[i].file_context # <<>>
          /\ findings[i].file_context[1].sensitivity = "high"
          /\ findings[i].intent_analysis[1].intent = "legitimate"
          /\ findings[i].severity = "low"
          /\ findings[i].reason[Len(findings[i].reason)] = " (high-sensitivity file)"

(***************************************************************************)
(* Properties of classify_intent, checked under SpecIntent.                *)
(***************************************************************************)
\* the part of new_value after its last '@', trimmed, equals a configured
\* trusted domain when letter case is ignored
C10_TrustedDestination(new_value) ==
    /\ Contains(<<"@">>, new_value)
    /\ \E d \in config.allowed_external_domains :
          Lower(Strip(SplitLast(new_value, "@"))) = Lower(d)

\* C10: classify_intent returns should_suppress = true exactly when
\* new_value contains '@' and the part after the last '@', trimmed and
\* compared case-insensitively, is a configured trusted domain; visibility,
\* ownership, baseline and off-hours play no part.
C10_SuppressExactlyWhenTrusted ==
    call.op = "classify_intent" =>
        (call.result.should_suppress <=> C10_TrustedDestination(call.args.new_value))


\* The deltas of the confidence rules, in hundredths, for the arguments a of
\* a call that has returned.
C11_DestinationDelta(a) ==
    LET destination_domain == _extract_destination_domain(a.new_value, a.visibility)
        reputation == IF destination_domain = NoStr THEN None
                      ELSE _get_domain_reputation(config, domain_reputation_cache,
                                                  destination_domain)
    IN  CASE reputation = "trusted" -> -40
          [] reputation = "partner" -> -20
          [] reputation = "unknown" -> 30
          [] OTHER -> 0

C11_OwnershipDelta(a) ==
    IF a.doc_owner = NoStr \/ a.actor = NoStr THEN 0
    ELSE IF _normalize_email(a.doc_owner) = _normalize_email(a.actor) THEN -10
    ELSE 30

C11_BaselineDelta(a) ==
    LET destination_domain == _extract_destination_domain(a.new_value, a.visibility)
    IN  IF destination_domain = NoStr THEN 0
        ELSE IF destination_domain
                  \in _get_or_create_baseline(user_baselines, a.actor).typical_share_domains
        THEN -20
        ELSE 20

C11_OffHoursDelta(a) ==
    IF Weekday(a.timestamp) \in {5, 6} \/ Hour(a.timestamp) < 6 \/ Hour(a.timestamp) > 20
    THEN 20 ELSE 0

C11_DownloadDelta(a) ==
    IF a.exfil_event \in {s_download, s_export}
       /\ _get_or_create_baseline(user_baselines, a.actor).typical_download_count > 10
    THEN -15 ELSE 0

C11_Confidence(a) ==
    50 + C11_DestinationDelta(a) + C11_OwnershipDelta(a) + C11_BaselineDelta(a)
       + C11_OffHoursDelta(a) + C11_DownloadDelta(a)

C11_Label(confidence) ==
    IF confidence >= 70 THEN "malicious"
    ELSE IF confidence >= 40 THEN "suspicious"
    ELSE "legitimate"

\* C11: classify_intent returns as confidence 0.5 plus the sum of the deltas
\* that apply, and labels it malicious from 0.7, suspicious from 0.4, both
\* inclusive, and legitimate below.
C11_ConfidenceAndLabel ==
    call.op = "classify_intent" =>
        /\ call.result.confidence = C11_Confidence(call.args)
        /\ call.result.intent = C11_Label(C11_Confidence(call.args))

\* the confidence is the sum of the deltas (the label left aside)
C11_ConfidenceIsSum ==
    call.op = "classify_intent" =>
        call.result.confidence = C11_Confidence(call.args)

\* C12: the confidence classify_intent returns lies in [0.0, 1.0].
C12_ConfidenceInUnitInterval ==
    call.op = "classify_intent" => call.result.confidence \in 0..100


C14_Deterministic ==
    (call.op = "classify_intent" /\ call.previous # <<>>) =>
        /\ call.result.intent = call.previous[1].intent
        /\ call.result.confidence = call.previous[1].confidence
        /\ call.result.reasons = call.previous[1].reasons
        /\ call.result.should_suppress = call.previous[1].should_suppress

\* a second consecutive call with a destination that the first call looked
\* up and cached, and an actor whose baseline the first call created
C14_Witness ==
    /\ call.op = "classify_intent"
    /\ call.previous # <<>>
    /\ call.result.destination_domain = d_partner
    /\ call.result.reasons # <<>>


(***************************************************************************)
(* The recon tracker called directly: record_recon and get_recon_score on  *)
(* a tracker with or without Redis.  A record_recon against Redis is a     *)
(* GET step and a SETEX step, each of which may raise; the fallback        *)
(* _store_in_memory is its membership test, the creation of the list and   *)
(* the append.  Two callers share the tracker and their steps interleave.  *)
(* No key reaches its 14 days' expiry: the timestamps are half an hour     *)
(* apart.                                                                  *)
(***************************************************************************)
MaxRecorded == 3

TrackerTimes == {T0, T0 + 1860}

TrackerActivities ==
    {ActivityData(alice, t, "docs", "catch_me_up") : t \in TrackerTimes}

\* the record_recon calls begun
Started ==
    Len(recorded) + Cardinality({p \in Procs : record_calls[p].pc # "idle"})

InitTracker ==
    /\ metadata_requests = <<>>
    /\ pc = "tracker"
    /\ config = DefaultConfig
    /\ recon_events = <<>>
    /\ drive_activities = <<>>
    /\ exfil_events = <<>>
    /\ memory_store = <<>>
    /\ user_baselines = <<>>
    /\ domain_reputation_cache = <<>>
    /\ file_cache = <<>>
    /\ findings = <<>>
    /\ window_minutes = 0
    /\ call = NoCall
    /\ redis_client \in BOOLEAN
    /\ redis_store = <<>>
    /\ record_calls = [p \in Procs |-> Idle]
    /\ recorded = <<>>

InProgress(step, activity_data, activities, get_failed, setex_failed) ==
    [pc |-> step, activity_data |-> activity_data, activities |-> activities,
     get_failed |-> get_failed, setex_failed |-> setex_failed]

Returned(p) ==
    [proc |-> p, activity_data |-> record_calls[p].activity_data,
     get_failed |-> record_calls[p].get_failed,
     setex_failed |-> record_calls[p].setex_failed]

\* record_recon, Redis branch, lines 81-98: the activity is built and
\* appended to the list read from Redis
RecordGet(p, activity_data, get_ok) ==
    /\ pc = "tracker"
    /\ redis_client
    /\ record_calls[p].pc = "idle"
    /\ Started < MaxRecorded
    /\ record_calls' =
           [record_calls EXCEPT ![p] =
               InProgress("setex", activity_data,
                   Append(_get_redis_activities(redis_store, activity_data.actor,
                                                get_ok),
                          activity_data),
                   ~get_ok, FALSE)]
    /\ call' = [op |-> "record_recon"]
    /\ UNCHANGED metadata_requests
    /\ UNCHANGED <<pc, config, recon_events, drive_activities, exfil_events,
                   memory_store, user_baselines, domain_reputation_cache, file_cache,
                   findings, window_minutes, redis_client, redis_store, recorded>>

\* lines 99-104: the list is written back, or the write raises and the
\* activity goes to the in-process map
RecordSetex(p, setex_ok) ==
    /\ pc = "tracker"
    /\ record_calls[p].pc = "setex"
    /\ IF setex_ok
       THEN /\ redis_store' = Setex(redis_store, record_calls[p].activity_data.actor,
                                    record_calls[p].activities)
            /\ recorded' = Append(recorded, Returned(p))
            /\ record_calls' = [record_calls EXCEPT ![p] = Idle]
       ELSE /\ record_calls' =
                   [record_calls EXCEPT ![p] =
                       InProgress("store_check", @.activity_data, <<>>,
                                  @.get_failed, TRUE)]
            /\ UNCHANGED <<redis_store, recorded>>
    /\ call' = [op |-> "record_recon"]
    /\ UNCHANGED metadata_requests
    /\ UNCHANGED <<pc, config, recon_events, drive_activities, exfil_events,
                   memory_store, user_baselines, domain_reputation_cache, file_cache,
                   findings, window_minutes, redis_client>>

\* record_recon without Redis, lines 81-93 and 105-106
RecordMemory(p, activity_data) ==
    /\ pc = "tracker"
    /\ ~redis_client
    /\ record_calls[p].pc = "idle"
    /\ Started < MaxRecorded
    /\ record_calls' =
           [record_calls EXCEPT ![p] =
               InProgress("store_check", activity_data, <<>>, FALSE, FALSE)]
    /\ call' = [op |-> "record_recon"]
    /\ UNCHANGED metadata_requests
    /\ UNCHANGED <<pc, config, recon_events, drive_activities, exfil_events,
                   memory_store, user_baselines, domain_reputation_cache, file_cache,
                   findings, window_minutes, redis_client, redis_store, recorded>>

\* _store_in_memory, line 116: `if key not in self.memory_store`
StoreCheck(p) ==
    /\ pc = "tracker"
    /\ record_calls[p].pc = "store_check"
    /\ record_calls' =
           [record_calls EXCEPT ![p].pc =
               IF record_calls[p].activity_data.actor \in DOMAIN memory_store
               THEN "store_append" ELSE "store_create"]
    /\ call' = [op |-> "record_recon"]
    /\ UNCHANGED metadata_requests
    /\ UNCHANGED <<pc, config, recon_events, drive_activities, exfil_events,
                   memory_store, user_baselines, domain_reputation_cache, file_cache,
                   findings, window_minutes, redis_client, redis_store, recorded>>

\* line 117: `self.memory_store[key] = []`
StoreCreate(p) ==
    /\ pc = "tracker"
    /\ record_calls[p].pc = "store_create"
    /\ memory_store' = Setex(memory_store, record_calls[p].activity_data.actor, <<>>)
    /\ record_calls' = [record_calls EXCEPT ![p].pc = "store_append"]
    /\ call' = [op |-> "record_recon"]
    /\ UNCHANGED metadata_requests
    /\ UNCHANGED <<pc, config, recon_events, drive_activities, exfil_events,
                   user_baselines, domain_reputation_cache, file_cache,
                   findings, window_minutes, redis_client, redis_store, recorded>>

\* line 118: `self.memory_store[key].append(activity_data)`
StoreAppend(p) ==
    /\ pc = "tracker"
    /\ record_calls[p].pc = "store_append"
    /\ memory_store' =
           [memory_store EXCEPT ![record_calls[p].activity_data.actor] =
               Append(@, record_calls[p].activity_data)]
    /\ recorded' = Append(recorded, Returned(p))
    /\ record_calls' = [record_calls EXCEPT ![p] = Idle]
    /\ call' = [op |-> "record_recon"]
    /\ UNCHANGED metadata_requests
    /\ UNCHANGED <<pc, config, recon_events, drive_activities, exfil_events,
                   user_baselines, domain_reputation_cache, file_cache,
                   findings, window_minutes, redis_client, redis_store>>

\* get_recon_score(actor, current_time); get_ok tells whether Redis answers
GetReconScore(actor, current_time, get_ok) ==
    /\ pc = "tracker"
    /\ get_ok \/ redis_client
    /\ call' = [op |-> "get_recon_score",
                args |-> [actor |-> actor, current_time |-> current_time],
                activities |-> ScoredActivities(redis_client, redis_store,
                                                memory_store, actor, get_ok),
                result |-> RoundedScore(
                               ScoredActivities(redis_client, redis_store,
                                                memory_store, actor, get_ok),
                               current_time)]
    /\ UNCHANGED metadata_requests
    /\ UNCHANGED <<pc, config, recon_events, drive_activities, exfil_events,
                   memory_store, user_baselines, domain_reputation_cache, file_cache,
                   findings, window_minutes>>
    /\ UNCHANGED tracker_vars

NextTracker ==
    \/ \E p \in Procs, activity_data \in TrackerActivities, get_ok \in BOOLEAN :
          RecordGet(p, activity_data, get_ok)
    \/ \E p \in Procs, setex_ok \in BOOLEAN : RecordSetex(p, setex_ok)
    \/ \E p \in Procs, activity_data \in TrackerActivities :
          RecordMemory(p, activity_data)
    \/ \E p \in Procs : StoreCheck(p)
    \/ \E p \in Procs : StoreCreate(p)
    \/ \E p \in Procs : StoreAppend(p)
    \/ \E current_time \in TrackerTimes, get_ok \in BOOLEAN :
          GetReconScore(alice, current_time, get_ok)

SpecTracker == InitTracker /\ [][NextTracker]_vars


(***************************************************************************)
(* Properties of the recon tracker, checked under SpecTracker.             *)
(***************************************************************************)
\* the decay factor of an activity at activity_time that is scored at
\* current_time, with an activity in the future taken as just recorded
C15_DecayFactor(activity_time, current_time) ==
    IF activity_time > current_time THEN 1000000
    ELSE _calculate_decay_factor(activity_time, current_time)

RECURSIVE C15_TotalScore(_, _)
C15_TotalScore(activities, current_time) ==
    IF activities = <<>> THEN 0
    ELSE Head(activities).score
           * C15_DecayFactor(FromIsoFormat(Head(activities).timestamp), current_time)
         + C15_TotalScore(Tail(activities), current_time)

\* C15: get_recon_score gives an activity whose timestamp is later than the
\* scoring time the decay factor 1.0, so that it adds exactly its base
\* score to the sum.
C15_FutureActivityNotDecayed ==
    call.op = "get_recon_score" =>
        call.result =
            (C15_TotalScore(call.activities, call.args.current_time) + 50000)
                \div 100000

\* the activities of a list, each kept once
RECURSIVE C16_Once(_)
C16_Once(activities) ==
    IF activities = <<>> THEN <<>>
    ELSE LET rest == C16_Once(Tail(activities))
         IN  IF \E i \in 1..Len(rest) : rest[i] = Head(activities)
             THEN rest ELSE <<Head(activities)>> \o rest

\* C16: recording a recon event that has been recorded before leaves the
\* actor's retained activities and score as they were: the retained
\* activities hold no event twice, and get_recon_score counts each event
\* once.
C16_IdempotentRecord ==
    /\ \A actor \in DOMAIN redis_store :
          C16_Once(redis_store[actor]) = redis_store[actor]
    /\ \A actor \in DOMAIN memory_store :
          C16_Once(memory_store[actor]) = memory_store[actor]
    /\ call.op = "get_recon_score" =>
          call.result = RoundedScore(C16_Once(call.activities), call.args.current_time)

\* the calls of record_recon for an actor that have returned
C17_Recorded(actor) ==
    SelectSeq(recorded, LAMBDA r : r.activity_data.actor = actor)

\* one caller only has called record_recon
C17_OneCaller ==
    /\ \A i \in 1..Len(recorded) : recorded[i].proc = 1
    /\ record_calls[2].pc = "idle"

\* C17: with backend reads and writes failing at any point, every activity
\* for which record_recon has returned is among those a following
\* get_recon_score sums, in the order recorded; none is dropped by a later
\* record_recon.
C17_NothingLost ==
    C17_OneCaller =>
        \A actor \in {alice} :
            ScoredActivities(redis_client, redis_store, memory_store, actor, TRUE)
                = [i \in 1..Len(C17_Recorded(actor)) |->
                      C17_Recorded(actor)[i].activity_data]

\* C18: when record_recon calls for one actor interleave against Redis, with
\* no backend failure, every recorded activity is retained once the calls
\* have returned.
C18_NoLostUpdate ==
    (/\ redis_client
     /\ \A p \in Procs : record_calls[p].pc = "idle"
     /\ \A i \in 1..Len(recorded) :
           ~recorded[i].get_failed /\ ~recorded[i].setex_failed)
    => \A actor \in {alice} :
          Len(_get_redis_activities(redis_store, actor, TRUE))
              = Len(C17_Recorded(actor))


(***************************************************************************)
(* _determine_sensitivity called directly, on label lists of up to two     *)
(* labels and four owners, with and without a configured sensitive label.  *)
(***************************************************************************)
MaxLabels == 2

o_ceo == <<"C", "E", "O", "@", "c", ".", "c", "o">>
o_finance_domain == <<"a", "@", "f", "i", "n", "a", "n", "c", "e", ".", "c", "o">>
l_Confidential == <<"C", "o", "n", "f", "i", "d", "e", "n", "t", "i", "a", "l">>
l_public == <<"p", "u", "b", "l", "i", "c">>

NoSensitiveLabelsConfig == [DefaultConfig EXCEPT !.sensitive_labels = {}]

SensitivityConfigs == {DefaultConfig, NoSensitiveLabelsConfig}

SensitivityLabels == {l_PII, l_pii_restricted, l_Confidential, l_public}

\* s_unknown is the owner get_file_metadata passes for a file without owners
SensitivityOwners == {alice, o_ceo, o_finance_domain, s_unknown}

SensitivityLabelLists ==
    UNION {[1..n -> SensitivityLabels] : n \in 0..MaxLabels}

InitSensitivity ==
    /\ metadata_requests = <<>>
    /\ MemoryTracker
    /\ pc = "sensitivity"
    /\ config \in SensitivityConfigs
    /\ recon_events = <<>>
    /\ drive_activities = <<>>
    /\ exfil_events = <<>>
    /\ memory_store = <<>>
    /\ user_baselines = <<>>
    /\ domain_reputation_cache = <<>>
    /\ file_cache = <<>>
    /\ findings = <<>>
    /\ window_minutes = 0
    /\ call = NoCall

\* _determine_sensitivity(labels, owner)
DetermineSensitivity(labels, owner) ==
    /\ pc = "sensitivity"
    /\ pc' = "returned"
    /\ call' = [op |-> "_determine_sensitivity", labels |-> labels, owner |-> owner,
                result |-> _determine_sensitivity(config, labels, owner)]
    /\ UNCHANGED tracker_vars
    /\ UNCHANGED metadata_requests
    /\ UNCHANGED <<config, recon_events, drive_activities, exfil_events,
                   memory_store, user_baselines, domain_reputation_cache, file_cache,
                   findings, window_minutes>>

NextSensitivity ==
    \E label_list \in SensitivityLabelLists, file_owner \in SensitivityOwners :
        DetermineSensitivity(label_list, file_owner)

SpecSensitivity == InitSensitivity /\ [][NextSensitivity]_vars

(***************************************************************************)
(* Properties of _determine_sensitivity, checked under SpecSensitivity.    *)
(***************************************************************************)
\* the part of an email address before its first '@'
C19_LocalPart(email) ==
    IF \E i \in 1..Len(email) : email[i] = "@"
    THEN SubSeq(email, 1, (CHOOSE i \in 1..Len(email) :
                              /\ email[i] = "@"
                              /\ \A j \in 1..(i - 1) : email[j] # "@") - 1)
    ELSE email

\* the rules, letter case ignored throughout
C19_SensitiveLabel(cfg, labels) ==
    \E sensitive_label \in cfg.sensitive_labels : \E i \in 1..Len(labels) :
        Contains(Lower(sensitive_label), Lower(labels[i]))

C19_SeniorOwner(owner) ==
    \E term \in {s_exec, s_ceo, s_cfo, s_finance} :
        Contains(term, Lower(C19_LocalPart(owner)))

C19_RestrictedLabel(labels) ==
    \E term \in {s_confidential, s_restricted, s_internal, s_sensitive, s_private} :
        \E i \in 1..Len(labels) : Contains(term, Lower(labels[i]))

C19_Sensitivity(cfg, labels, owner) ==
    IF C19_SensitiveLabel(cfg, labels) THEN "high"
    ELSE IF C19_SeniorOwner(owner) THEN "high"
    ELSE IF C19_RestrictedLabel(labels) THEN "medium"
    ELSE "low"

\* C19: _determine_sensitivity returns the level of the first rule that
\* matches: high for a configured sensitive label inside a file label,
\* else high for exec, ceo, cfo or finance in the local part of the owner's
\* address (not in its domain), else medium for a restricted term in a
\* label, else low.
C19_FirstMatchWins ==
    call.op = "_determine_sensitivity" =>
        call.result = C19_Sensitivity(config, call.labels, call.owner)

\* the same for the owners whose domain holds none of the terms
C19_ExceptDomainOwner ==
    (call.op = "_determine_sensitivity" /\ call.owner # o_finance_domain) =>
        call.result = C19_Sensitivity(config, call.labels, call.owner)


(***************************************************************************)
(* Properties of the whole run again, checked under Spec.                  *)
(***************************************************************************)
\* C21: in one run the metadata source is asked at most once for a doc_id,
\* also when the request fails with 404 or another error.
C21_OneRequestPerDocId ==
    \A i \in 1..Len(metadata_requests) : \A j \in 1..Len(metadata_requests) :
        metadata_requests[i] = metadata_requests[j] => i = j

\* the same for the doc_ids whose request succeeds
C21_OneRequestPerFileFound ==
    \A i \in 1..Len(metadata_requests) : \A j \in 1..Len(metadata_requests) :
        (metadata_requests[i] = metadata_requests[j]
         /\ metadata_requests[i] \in DOMAIN file_cache) => i = j


\* the classification correlate_events obtains for egress e
C22_Classified(e) ==
    classify_intent(config, domain_reputation_cache, user_baselines, ClassifyArgs(e))

C22_Applied(reasons, reason) == \E i \in 1..Len(reasons) : reasons[i] = reason

\* C22: within correlate_events every classification of an egress event
\* that has a destination domain applies the familiar-destination adjustment
\* and none applies the first-time one, the baselines having been built
\* from the same batch.
C22_NeverFirstTime ==
    pc = "done" =>
        /\ \A j \in 1..Len(exfil_events) :
              /\ ~C22_Applied(C22_Classified(exfil_events[j]).reasons,
                              "First-time share with domain")
              /\ C22_Classified(exfil_events[j]).destination_domain # NoStr
                     => C22_Applied(C22_Classified(exfil_events[j]).reasons,
                                    "User has historically shared with domain")
        /\ \A i \in 1..Len(findings) :
              findings[i].intent_analysis # <<>> =>
                  /\ ~C22_Applied(findings[i].intent_analysis[1].reasons,
                                  "First-time share with domain")
                  /\ findings[i].intent_analysis[1].destination_domain # NoStr
                         => C22_Applied(findings[i].intent_analysis[1].reasons,
                                        "User has historically shared with domain")

\* a run that reports an egress to a partner address whose domain the actor's
\* baseline holds from this batch alone
C22_Witness ==
    /\ pc = "done"
    /\ \E i \in 1..Len(findings) :
          /\ findings[i].intent_analysis # <<>>
          /\ findings[i].intent_analysis[1].destination_domain = d_partner
          /\ C22_Applied(findings[i].intent_analysis[1].reasons,
                         "User has historically shared with domain")
          /\ user_baselines[findings[i].actor].typical_share_count = 1


\* the positions of the findings, of either kind, about egress e
C23_FindingsOf(e) ==
    {i \in 1..Len(findings) : findings[i].event_ids.exfil = e.event_id}

\* egress e has a recon in the window and its classification suppresses
C23_SuppressedMatch(e) ==
    /\ \E k \in 1..Len(recon_events) :
          LiesInWindow(recon_events[k], e, window_minutes)
    /\ ClassifiedSuppress(e)

\* C23: an egress with a recon of its actor in the window, all of whose
\* draft findings are suppressed, has no finding at all: no delayed-exfil
\* finding is emitted for it whatever the actor's recon score.
C23_SuppressedMatchIsAMatch ==
    pc = "done" =>
        \A j \in 1..Len(exfil_events) :
            C23_SuppressedMatch(exfil_events[j])
                => C23_FindingsOf(exfil_events[j]) = {}

\* a run with a suppressed egress that has a recon in the window, no finding,
\* and a recon score above 5.0 at its time
C23_Witness ==
    /\ pc = "done"
    /\ \E j \in 1..Len(exfil_events) :
          /\ C23_SuppressedMatch(exfil_events[j])
          /\ get_recon_score(memory_store, exfil_events[j].actor,
                             exfil_events[j].timestamp) > 500
          /\ C23_FindingsOf(exfil_events[j]) = {}


\* the store holds a recon activity of the actor of e at or before e's time
C24_EarlierActivity(e) ==
    /\ e.actor \in DOMAIN memory_store
    /\ \E i \in 1..Len(memory_store[e.actor]) :
          FromIsoFormat(memory_store[e.actor][i].timestamp) <= e.timestamp

\* C24: a delayed-exfil finding is emitted for an egress only if the store
\* holds a recon activity of its actor at or before the egress; activities
\* after it never trigger one by themselves.
C24_DelayedExfilNeedsEarlierRecon ==
    pc = "done" =>
        \A j \in 1..Len(exfil_events) :
            DelayedFindings(exfil_events[j]) # {}
                => C24_EarlierActivity(exfil_events[j])

=============================================================================
